---- MODULE Spec2Model ----
(***************************************************************************)
(* Model of the Google Maps extraction pipeline of this repository: the    *)
(* three session controllers                                               *)
(*   "Basic"    GoogleMapsBusinessScraper         (google_maps_scraper.py) *)
(*   "Enhanced" EnhancedGoogleMapsBusinessScraper (enhanced_..._scraper.py)*)
(*   "Advanced" AdvancedContactExtractor          (main.py)                *)
(* each with its link collector, its detail visit and (Advanced only) the  *)
(* secondary-source visitor.  The browser is the environment: what a page  *)
(* shows and which driver call fails are inputs drawn with \E.             *)
(*                                                                         *)
(* A Python set is kept as the sequence of its insertions (SetAdd), and    *)
(* list(a_set) is any arrangement of it (ListOfSet): the iteration order   *)
(* of a set of strings is not fixed by the language.                       *)
(***************************************************************************)
EXTENDS Integers, Sequences, FiniteSets, TLC

\* ------------------------------------------------------------------ bounds
MaxPlaces == 2      \* distinct businesses the directory can show
MaxTarget == 2      \* small target counts 1..MaxTarget (plus ScrollDivisor)
MaxFound == 2       \* anchors reported to one scanning pass
MaxNameHits == 2    \* name locators that resolve to an element in one visit
MaxFragments == 4
MaxAddresses == 4   \* fragments of a text given to extract_contacts_from_text

\* ------------------------------------------------------- program constants
BasicMaxScrolls == 8
BasicPatience == 3
EnhancedMaxScrolls == 200
EnhancedPatience == 25
AdvancedScrollCap == 50
ScrollDivisor == 10
AdvancedPatience == 3
ContactCap == 3
BasicLinkSelectors == 4         \* entries of link_selectors
EnhancedLinkSelectors == 20
BasicContainers == 4            \* entries of scrollable_selectors
EnhancedContainers == 8
EnhancedScrollSteps == 3        \* scroll scripts run on the panel found
NameMinLen == 1                 \* len(name_text) > 1
AddressMinLen == 5
CategoryMinLen == 2
BasicNameSelectors == 6
EnhancedNameSelectors == 9
BasicAddressSelectors == 5
EnhancedAddressSelectors == 7
BasicCategorySelectors == 3
EnhancedCategorySelectors == 4
BasicWebsiteSelectors == 3
EnhancedWebsiteSelectors == 4

Variants == {"Basic", "Enhanced", "Advanced"}
Places == 1..MaxPlaces
Targets == (1..MaxTarget) \cup {ScrollDivisor}

\* An href is <<form, place>>: "abs" is https://www.google.com/maps/place/<p>,
\* "rel" is /maps/place/<p>, "other" an href that fails the test
\* `href and '/maps/place/' in href` (another address, or no href at all);
\* "none" is the url of no record.
AbsLinks == {<<"abs", p>> : p \in Places}
RelLinks == {<<"rel", p>> : p \in Places}
OtherHref == <<"other", 0>>
NoHref == <<"none", 0>>
ElementHrefs == AbsLinks \cup {OtherHref}
SourceHrefs == AbsLinks \cup RelLinks

Min(a, b) == IF a < b THEN a ELSE b
Range(s) == {s[k] : k \in 1..Len(s)}
Take(s, n) == SubSeq(s, 1, Min(n, Len(s)))
Drop(s, n) == SubSeq(s, n + 1, Len(s))
SeqsUpTo(S, n) == UNION {[1..k -> S] : k \in 0..n}

\* ------------------------------------------------------------ Python sets
\* mutant: a list used where the set is, every report appended
SetAddNoMembership(s, x) == Append(s, x)

\* all_links.add(href) guarded by `href not in all_links`
SetAdd(s, x) == IF x \in Range(s) THEN s ELSE Append(s, x)

RECURSIVE SetUpdate(_, _)
\* all_links.update(other): every element added, in the other's iteration order
SetUpdate(s, xs) == IF xs = <<>> THEN s ELSE SetUpdate(SetAdd(s, Head(xs)), Tail(xs))

\* list(a_set): any arrangement of the stored elements
ListOfSet(s) ==
    LET n == Len(s)
        bij == {f \in [1..n -> 1..n] : \A a, b \in 1..n : a # b => f[a] # f[b]}
    IN {[k \in 1..n |-> s[f[k]]] : f \in bij}

\* mutant: the slice forgotten
TruncateNoCap(links, n) == links

\* list(all_links)[:self.max_results]
Truncate(links, n) == Take(links, n)

\* ------------------------------------------------------------ the scanning
\* '/maps/place/' in href, for a non-empty href
IsPlaceHref(h) == h[1] \in {"abs", "rel"}

\* main.py: if link.startswith('/'): link = 'https://www.google.com' + link
Canonical(h) == IF h[1] = "rel" THEN <<"abs", h[2]>> ELSE h

RECURSIVE ScanHrefs(_, _)
\* one pass over the elements of every selector, in the order reported:
\* the set after the pass and the number of insertions
ScanHrefs(links, hrefs) ==
    IF hrefs = <<>> THEN [links |-> links, new |-> 0]
    ELSE LET h == Canonical(Head(hrefs))
             fresh == IsPlaceHref(h) /\ h \notin Range(links)
             rest == ScanHrefs(IF IsPlaceHref(h) THEN SetAdd(links, h) ELSE links,
                               Tail(hrefs))
         IN [links |-> rest.links, new |-> rest.new + (IF fresh THEN 1 ELSE 0)]

\* ---------------------------------------------------------- the contacts
EmailCandidates == {"a@x.com", "b@x.com", "noreply@x.com"}
ExcludedEmails == {"noreply@x.com"}
NoValue == "None"

\* the validity filter of extract_contacts_from_text, on the matched set
ValidEmails(matches) == matches \ ExcludedEmails

RECURSIVE SeqOfSet(_)
\* some enumeration of a finite set (the order in which a set was filled)
SeqOfSet(S) == IF S = {} THEN <<>>
               ELSE LET x == CHOOSE y \in S : TRUE IN <<x>> \o SeqOfSet(S \ {x})

\* list(set(valid_emails))[:3] : the lists the parser can return for a match set
ExtractEmails(matches) == {Take(p, ContactCap) : p \in ListOfSet(SeqOfSet(ValidEmails(matches)))}
ParsedEmailLists == UNION {ExtractEmails(m) : m \in SUBSET EmailCandidates}

RECURSIVE Dedup(_)
\* list(dict.fromkeys(xs)): first occurrences, order kept
Dedup(xs) == IF xs = <<>> THEN <<>>
             ELSE LET d == Dedup(SubSeq(xs, 1, Len(xs) - 1))
                      x == xs[Len(xs)]
                  IN IF x \in Range(d) THEN d ELSE Append(d, x)

\* mutant: the website's list replaces the directory's instead of extending it
MergeWebsiteOnly(page, web) == Take(Dedup(web), ContactCap)

\* unique_emails = list(dict.fromkeys(page + website))[:3]
MergeContacts(page, web) == Take(Dedup(page \o web), ContactCap)

\* emails[0] if emails else None ; emails[1] if len(emails) > 1 else None
PrimaryOf(emails) == IF emails # <<>> THEN emails[1] ELSE NoValue
SecondaryOf(emails) == IF Len(emails) > 1 THEN emails[2] ELSE NoValue

\* the dict extract_from_website returns from its except clause
ErrorContacts == [emails |-> <<>>, phones |-> <<>>]

\* Python truth value of a dict: it has at least one key
Truthy(d) == DOMAIN d # {}

\* ----------------------------------------------- extract_contacts_from_text
\* A string is the sequence of its characters.  A text is a sequence of
\* fragments; each fragment carries what findall of the three email patterns
\* and of the four phone patterns returns on it (phone pattern 1 has three
\* groups and returns tuples, the others return strings).
MixedCaseEmail ==
    [text |-> <<"A", "@", "x", ".", "c", "o">>,
       emails |-> <<<<<<"A", "@", "x", ".", "c", "o">>>>, <<>>, <<>>>>,
       phones |-> <<<<>>, <<>>, <<>>, <<>>>>]
MailtoEmail ==
    [text |-> <<"m", "a", "i", "l", "t", "o", ":", "a", "@", "x", ".", "c", "o">>,
       emails |-> <<<<<<"a", "@", "x", ".", "c", "o">>>>, <<<<"a", "@", "x", ".", "c", "o">>>>, <<>>>>,
       phones |-> <<<<>>, <<>>, <<>>, <<>>>>]
EmailB ==
    [text |-> <<"b", "@", "x", ".", "c", "o">>,
       emails |-> <<<<<<"b", "@", "x", ".", "c", "o">>>>, <<>>, <<>>>>,
       phones |-> <<<<>>, <<>>, <<>>, <<>>>>]
EmailC ==
    [text |-> <<"c", "@", "x", ".", "c", "o">>,
       emails |-> <<<<<<"c", "@", "x", ".", "c", "o">>>>, <<>>, <<>>>>,
       phones |-> <<<<>>, <<>>, <<>>, <<>>>>]
EmailD ==
    [text |-> <<"d", "@", "x", ".", "c", "o">>,
       emails |-> <<<<<<"d", "@", "x", ".", "c", "o">>>>, <<>>, <<>>>>,
       phones |-> <<<<>>, <<>>, <<>>, <<>>>>]
NoReplyEmail ==
    [text |-> <<"n", "o", "r", "e", "p", "l", "y", "@", "x", ".", "c", "o">>,
       emails |-> <<<<<<"n", "o", "r", "e", "p", "l", "y", "@", "x", ".", "c", "o">>>>, <<>>, <<>>>>,
       phones |-> <<<<>>, <<>>, <<>>, <<>>>>]
PlainPhone ==
    [text |-> <<"5", "5", "5", "1", "2", "3", "4", "5", "6", "7">>,
       emails |-> <<<<>>, <<>>, <<>>>>,
       phones |-> <<<<<<<<"5", "5", "5">>, <<"1", "2", "3">>, <<"4", "5", "6", "7">>>>>>, <<<<"5", "5", "5", "1", "2", "3", "4", "5", "6", "7">>>>, <<>>, <<>>>>]
DashedPhone ==
    [text |-> <<"5", "5", "5", "-", "1", "2", "3", "-", "4", "5", "6", "7">>,
       emails |-> <<<<>>, <<>>, <<>>>>,
       phones |-> <<<<<<<<"5", "5", "5">>, <<"1", "2", "3">>, <<"4", "5", "6", "7">>>>>>, <<<<"5", "5", "5", "-", "1", "2", "3", "-", "4", "5", "6", "7">>>>, <<>>, <<>>>>]
TelPlusPhone ==
    [text |-> <<"t", "e", "l", ":", "+", "1", "5", "5", "5", "1", "2", "3", "4", "5", "6", "7">>,
       emails |-> <<<<>>, <<>>, <<>>>>,
       phones |-> <<<<<<<<"5", "5", "5">>, <<"1", "2", "3">>, <<"4", "5", "6", "7">>>>>>, <<>>, <<>>, <<<<"+", "1", "5", "5", "5", "1", "2", "3", "4", "5", "6", "7">>>>>>]
TelCountryPhone ==
    [text |-> <<"t", "e", "l", ":", "1", "5", "5", "5", "1", "2", "3", "4", "5", "6", "8">>,
       emails |-> <<<<>>, <<>>, <<>>>>,
       phones |-> <<<<<<<<"5", "5", "5">>, <<"1", "2", "3">>, <<"4", "5", "6", "8">>>>>>, <<>>, <<>>, <<<<"1", "5", "5", "5", "1", "2", "3", "4", "5", "6", "8">>>>>>]
ParenPhone ==
    [text |-> <<"(", "5", "5", "5", ")", " ", "1", "2", "3", "-", "4", "5", "6", "9">>,
       emails |-> <<<<>>, <<>>, <<>>>>,
       phones |-> <<<<<<<<"5", "5", "5">>, <<"1", "2", "3">>, <<"4", "5", "6", "9">>>>>>, <<>>, <<<<"(", "5", "5", "5", ")", " ", "1", "2", "3", "-", "4", "5", "6", "9">>>>, <<>>>>]
LongPhone ==
    [text |-> <<"4", "4", "2", "0", "7", "1", "2", "3", "4", "5", "6", "7">>,
       emails |-> <<<<>>, <<>>, <<>>>>,
       phones |-> <<<<<<<<"4", "4", "2">>, <<"0", "7", "1">>, <<"2", "3", "4", "5">>>>>>, <<>>, <<>>, <<>>>>]

EmailFragments == {MixedCaseEmail, MailtoEmail, EmailB, EmailC, EmailD, NoReplyEmail}
PhoneFragments == {PlainPhone, DashedPhone, TelPlusPhone, TelCountryPhone, ParenPhone, LongPhone}
Fragments == EmailFragments \cup PhoneFragments

DigitChars == {"0", "1", "2", "3", "4", "5", "6", "7", "8", "9"}

\* str.lower() on one character
Lower(c) == CASE c = "A" -> "a" [] c = "X" -> "x" [] c = "C" -> "c" [] c = "O" -> "o"
              [] OTHER -> c
LowerCase(str) == [k \in 1..Len(str) |-> Lower(str[k])]

RECURSIVE Strip(_)
\* str.strip()
Strip(str) ==
    IF str # <<>> /\ Head(str) = " " THEN Strip(Tail(str))
    ELSE IF str # <<>> /\ str[Len(str)] = " " THEN Strip(SubSeq(str, 1, Len(str) - 1))
    ELSE str

\* sub in str
Contains(str, sub) ==
    \E k \in 0..(Len(str) - Len(sub)) : SubSeq(str, k + 1, k + Len(sub)) = sub

RECURSIVE Flatten(_)
\* the concatenation of a sequence of sequences
Flatten(ss) == IF ss = <<>> THEN <<>> ELSE Head(ss) \o Flatten(Tail(ss))

\* pattern.findall(text) for the k-th email pattern / phone pattern
FindEmails(txt, k) == Flatten([n \in 1..Len(txt) |-> txt[n].emails[k]])
FindPhones(txt, k) == Flatten([n \in 1..Len(txt) |-> txt[n].phones[k]])

\* the set `emails` after the three patterns were scanned (matches are strings)
ScanEmails(txt) ==
    SetUpdate(<<>>, FindEmails(txt, 1) \o FindEmails(txt, 2) \o FindEmails(txt, 3))

\* re.sub(r'[^\d]', '', match)
DigitsOnly(str) == SelectSeq(str, LAMBDA c : c \in DigitChars)

RECURSIVE AddPhoneMatches(_, _, _)
\* one phone pattern's matches added to the set `phones`: a tuple is joined,
\* a string is added as matched; both only with at least 10 characters / digits
AddPhoneMatches(phones, matches, isTuple) ==
    IF matches = <<>> THEN phones
    ELSE LET m == Head(matches)
             phone == IF isTuple THEN Flatten(m) ELSE m
             long == IF isTuple THEN Len(phone) >= 10 ELSE Len(DigitsOnly(m)) >= 10
         IN AddPhoneMatches(IF long THEN SetAdd(phones, phone) ELSE phones,
                            Tail(matches), isTuple)

\* the set `phones` after the four patterns were scanned
ScanPhones(txt) ==
    LET s1 == AddPhoneMatches(<<>>, FindPhones(txt, 1), TRUE)
        s2 == AddPhoneMatches(s1, FindPhones(txt, 2), FALSE)
        s3 == AddPhoneMatches(s2, FindPhones(txt, 3), FALSE)
    IN AddPhoneMatches(s3, FindPhones(txt, 4), FALSE)

NoReplyFragments ==
    {<<"n", "o", "r", "e", "p", "l", "y">>,
     <<"d", "o", "n", "o", "t", "r", "e", "p", "l", "y">>,
     <<"n", "o", "-", "r", "e", "p", "l", "y">>}

\* mutant: the address is checked as matched, without strip().lower()
NormaliseEmailAsMatched(email) == email

\* email = email.strip().lower()
NormaliseEmail(email) == LowerCase(Strip(email))

\* the two tests an email must pass to enter valid_emails
AcceptsEmail(email) ==
    /\ "@" \in Range(email) /\ "." \in Range(email) /\ Len(email) > 5
    /\ ~\E f \in NoReplyFragments : Contains(email, f)

RECURSIVE ValidEmailList(_)
\* valid_emails, for the set `emails` iterated in the order given
ValidEmailList(emails) ==
    IF emails = <<>> THEN <<>>
    ELSE LET email == NormaliseEmail(Head(emails))
         IN (IF AcceptsEmail(email) THEN <<email>> ELSE <<>>) \o ValidEmailList(Tail(emails))

\* re.sub(r'[^\d+]', '', phone)
CleanPhone(phone) == SelectSeq(phone, LAMBDA c : c \in DigitChars \cup {"+"})

\* mutant: the country digit of an 11-character number is kept in the area code
FormatFromStart(clean, skip) ==
    <<"(">> \o SubSeq(clean, 1, 3) \o <<")", " ">>
            \o SubSeq(clean, 4, 6) \o <<"-">> \o SubSeq(clean, 7, Len(clean))

\* f"({c[s:s+3]}) {c[s+3:s+6]}-{c[s+6:]}" with s = skip
FormatUS(clean, skip) ==
    <<"(">> \o SubSeq(clean, skip + 1, skip + 3) \o <<")", " ">>
            \o SubSeq(clean, skip + 4, skip + 6) \o <<"-">> \o SubSeq(clean, skip + 7, Len(clean))

RECURSIVE ValidPhoneList(_)
\* valid_phones, for the set `phones` iterated in the order given: only the
\* two US forms are appended, any other cleaned string is passed over
ValidPhoneList(phones) ==
    IF phones = <<>> THEN <<>>
    ELSE LET clean == CleanPhone(Head(phones))
             formatted ==
                 IF Len(clean) >= 10 /\ Len(clean) <= 15
                 THEN IF Len(clean) = 10 THEN <<FormatUS(clean, 0)>>
                      ELSE IF Len(clean) = 11 /\ clean[1] = "1" THEN <<FormatUS(clean, 1)>>
                      ELSE <<>>
                 ELSE <<>>
         IN formatted \o ValidPhoneList(Tail(phones))

\* mutant: the lists returned whole
AllContacts(values) == values

\* [:3]
CapContacts(values) == Take(values, ContactCap)

\* ------------------------------------------------------------ the records
NameTexts == {"", "X", "Acme"}
TextLen(t) == CASE t = "" -> 0 [] t = "X" -> 1 [] OTHER -> 4
UnknownName == "Unknown Business"

NoAdditional == [set |-> FALSE, extra_emails |-> <<>>, extra_phones |-> <<>>]

\* mutant: the record does not keep the reference it was read from
NewDataFixedUrl(url) ==
    [none |-> FALSE, name |-> "", google_maps_url |-> <<"abs", 1>>, website |-> NoValue,
     mobile |-> NoValue, email |-> NoValue, secondary_email |-> NoValue,
     website_visited |-> FALSE, additional_contacts |-> NoAdditional]

\* the dict a detail visit starts from
NewData(url) ==
    [none |-> FALSE, name |-> "", google_maps_url |-> url, website |-> NoValue,
     mobile |-> NoValue, email |-> NoValue, secondary_email |-> NoValue,
     website_visited |-> FALSE, additional_contacts |-> NoAdditional]

\* a detail visit that returned None
NoneData == [NewData(NoHref) EXCEPT !.none = TRUE]

\* the block under `if website_contacts:`: the lists of the directory page
\* and of the website are joined, de-duplicated and cut, the two emails are
\* assigned again and the rest is stored as additional_contacts
MergeInto(d, page, web) ==
    LET unique_emails == MergeContacts(page.emails, web.emails)
        unique_phones == MergeContacts(page.phones, web.phones)
    IN [d EXCEPT !.website_visited = TRUE,
                 !.email = PrimaryOf(unique_emails),
                 !.secondary_email = SecondaryOf(unique_emails),
                 !.additional_contacts =
                     [set |-> TRUE, extra_emails |-> Drop(unique_emails, 2),
                      extra_phones |-> Drop(unique_phones, 2)]]

RECURSIVE FirstValidName(_)
\* the name cascade: first selector text with len > 1, else the placeholder
FirstValidName(texts) ==
    IF texts = <<>> THEN UnknownName
    ELSE IF TextLen(Head(texts)) > 1 THEN Head(texts)
    ELSE FirstValidName(Tail(texts))

\* mutant: every returned dict is kept
MeaningfulAnyData(d) == ~d.none

\* run_extraction: business_data and business_data.get('name') != 'Unknown Business'
Meaningful(d) == ~d.none /\ d.name # UnknownName

\* ------------------------------------------------- the browsing contexts
Closed == 0 - 1     \* the current context after its window was closed
MainTab == 0
WebFailPoints == {"open", "switch", "read", "find", "close", "switchBack"}
HandlerFails == {"none", "handles", "close", "switch"}

\* the handle a newly opened window gets
FreshTab(h) == CHOOSE t \in 0..Len(h) : t \notin Range(h)
Without(h, t) == SelectSeq(h, LAMBDA x : x # t)

\* the except clause of extract_from_website, entered with windows h and
\* current context c; hf is the handler's own call that fails, if any
WebsiteHandler(h, c, hf) ==
    IF hf = "handles" THEN [res |-> "raised", handles |-> h, cur |-> c]
    ELSE IF Len(h) > 1
    THEN IF hf = "close" \/ c = Closed
         THEN [res |-> "raised", handles |-> h, cur |-> c]
         ELSE LET h2 == Without(h, c)
              IN IF hf = "switch"
                 THEN [res |-> "raised", handles |-> h2, cur |-> Closed]
                 ELSE [res |-> "error", handles |-> h2, cur |-> h2[1]]
    ELSE [res |-> "error", handles |-> h, cur |-> c]

\* extract_from_website: f is the step of the try body that raises ("none":
\* no step does), hf the failing call of the except clause
ExtractFromWebsite(h, c, f, hf) ==
    LET t == FreshTab(h)
        h1 == Append(h, t)
        h2 == Without(h1, t)
    IN CASE f = "open" -> WebsiteHandler(h, c, hf)
         [] f = "switch" -> WebsiteHandler(h1, c, hf)
         [] f \in {"read", "find", "close"} -> WebsiteHandler(h1, t, hf)
         [] f = "switchBack" -> WebsiteHandler(h2, Closed, hf)
         [] OTHER -> [res |-> "ok", handles |-> h2, cur |-> h2[1]]

\* what the environment can do to one call of extract_from_website: a step
\* fails (and possibly a call of the handler too), or every step succeeds
\* and the site, and the contact page when its link is followed, show emails
WebScenarios ==
    {[f |-> f, hf |-> hf, site_emails |-> <<>>, click |-> "no_link", contact_emails |-> <<>>] :
        f \in WebFailPoints, hf \in HandlerFails}
    \cup {[f |-> "none", hf |-> "none", site_emails |-> e, click |-> c, contact_emails |-> <<>>] :
        e \in ParsedEmailLists, c \in {"no_link", "click_fails"}}
    \cup {[f |-> "none", hf |-> "none", site_emails |-> e, click |-> "clicked", contact_emails |-> ce] :
        e \in ParsedEmailLists, ce \in ParsedEmailLists}

\* what one directory detail page can show to main.py: the page fails to
\* load, or it loads with nothing the locators match (the name stays the
\* placeholder), or it shows a name, a website (or none) and emails
PageScenarios ==
    {[fails |-> f, name |-> UnknownName, website |-> NoValue, emails |-> <<>>] : f \in BOOLEAN}
    \cup {[fails |-> FALSE, name |-> "Acme", website |-> w, emails |-> e] :
        w \in {NoValue, "w"}, e \in ParsedEmailLists}

\* ------------------------------------------------------- the return values
ListRet(l) == [kind |-> "list", list |-> l]
FalseRet == [kind |-> "False", list |-> <<>>]
Pending == [kind |-> "pending", list |-> <<>>]
Propagated == [kind |-> "raised", list |-> <<>>]

\* no answer of /scrape yet
NoResponse == [status |-> 0, success |-> FALSE, data |-> <<>>, total_results |-> 0]

\* raise HTTPException(status_code=500, ...)
ServerError == [status |-> 500, success |-> FALSE, data |-> <<>>, total_results |-> 0]

\* mutant: the entries of unnamed businesses are left out too
ScrapeResponseDropsUnnamed(r) ==
    IF r.kind = "list" /\ r.list # <<>>
    THEN LET business_results == SelectSeq(r.list, LAMBDA d : ~d.none /\ d.name # UnknownName)
         IN [status |-> 200, success |-> TRUE, data |-> business_results,
             total_results |-> Len(business_results)]
    ELSE [status |-> 200, success |-> FALSE, data |-> <<>>, total_results |-> 0]

\* mutant: total_results counts the entries returned, None included
ScrapeResponseCountsEntries(r) ==
    IF r.kind = "list" /\ r.list # <<>>
    THEN LET business_results == SelectSeq(r.list, LAMBDA d : ~d.none)
         IN [status |-> 200, success |-> TRUE, data |-> business_results,
             total_results |-> Len(r.list)]
    ELSE [status |-> 200, success |-> FALSE, data |-> <<>>, total_results |-> 0]

\* the SearchResponse of /scrape for what run_extraction returned:
\* `if results and isinstance(results, list)`, `if result:` for every entry
ScrapeResponse(r) ==
    IF r.kind = "list" /\ r.list # <<>>
    THEN LET business_results == SelectSeq(r.list, LAMBDA d : ~d.none)
         IN [status |-> 200, success |-> TRUE, data |-> business_results,
             total_results |-> Len(business_results)]
    ELSE [status |-> 200, success |-> FALSE, data |-> <<>>, total_results |-> 0]

\* `return []` (Basic, Enhanced) / `return False` (Advanced) when the search fails
SearchFailedResult(v) == IF v = "Advanced" THEN FalseRet ELSE ListRet(<<>>)

\* mutant: the no-links return of main.py copied into every controller
ZeroLinksAlwaysFalse(v) == FalseRet

\* `if not business_links: return []` / `return False`
ZeroLinksResult(v) == IF v = "Advanced" THEN FalseRet ELSE ListRet(<<>>)

\* the outer `except Exception` clause
ExceptionResult(v) == IF v = "Advanced" THEN FalseRet ELSE ListRet(<<>>)

\* mutant: cleanup called at the end of the try body instead of in `finally`
CleanupOnCompletionOnly(path) == path = "completed"

\* `finally: self.cleanup()` runs whatever way the try statement was left
RunsCleanup(path) == path \in {"search_failed", "no_links", "completed", "exception", "interrupt"}

\* mutant: no per-item try/except, a raising visit leaves the loop
PerItemHandlerMissing(v) == FALSE

\* the detail loop of Basic and Enhanced wraps each visit in try/except
HasPerItemHandler(v) == v \in {"Basic", "Enhanced"}

\* mutant: the counter only ever grows
StagnationCountNoReset(count, new) == IF new = 0 THEN count + 1 ELSE count

\* if new_links_count == 0: no_new_content_count += 1 / else: no_new_content_count = 0
StagnationCount(count, new) == IF new = 0 THEN count + 1 ELSE 0

\* mutant: the complete reload scheduled past the end of patience
EscalationReloadLate(count) ==
    CASE count = 2 -> "alternative_scroll"
      [] count = 4 -> "page_refresh"
      [] count = 7 -> "zoom_out"
      [] count = EnhancedPatience + 1 -> "complete_reload"
      [] OTHER -> "none"

\* the if/elif chain on no_new_content_count of the Enhanced collector: the
\* strategy invoked when the counter has just reached the value
Escalation(count) ==
    CASE count = 2 -> "alternative_scroll"
      [] count = 4 -> "page_refresh"
      [] count = 7 -> "zoom_out"
      [] count = 12 -> "complete_reload"
      [] OTHER -> "none"

\* mutant: the sweep made on every way out of the loop body
RunsFinalAttemptOnAnyExit(reason) == reason # "none"

\* _railway_final_attempt is called only inside `if no_new_content_count >= max_patience`
RunsFinalAttempt(reason) == reason = "stagnation"

\* mutant: every resolved website is visited
ShouldVisitAnyWebsite(enabled, website) == website # NoValue

\* if self.visit_websites and data['website']:
ShouldVisit(enabled, website) == enabled /\ website # NoValue

\* mutant: the Advanced collector makes one pass at least
MaxScrollsAtLeastOne(v, n) ==
    CASE v = "Basic" -> BasicMaxScrolls
      [] v = "Enhanced" -> EnhancedMaxScrolls
      [] OTHER -> IF n < ScrollDivisor THEN 1 ELSE Min(AdvancedScrollCap, n \div ScrollDivisor)

\* the bound of the collection loop
MaxScrolls(v, n) ==
    CASE v = "Basic" -> BasicMaxScrolls
      [] v = "Enhanced" -> EnhancedMaxScrolls
      [] OTHER -> Min(AdvancedScrollCap, n \div ScrollDivisor)

\* ------------------------------------- the field cascades of a detail page
\* (extract_business_data of Basic, _extract_* of Enhanced, and the single
\* lookups of extract_business_contacts of Advanced).  A value of the dict is
\* None or a string, a string being the sequence of its characters.
None == [none |-> TRUE, text |-> <<>>]
Str(t) == [none |-> FALSE, text |-> t]

TextFields == {"name", "address", "category"}
FieldOrder == <<"name", "address", "category", "website">>

\* the selectors a field has; Advanced looks each field up once
Strategies(v, f) ==
    CASE v = "Advanced" -> 1
      [] f = "name" -> IF v = "Basic" THEN BasicNameSelectors ELSE EnhancedNameSelectors
      [] f = "address" -> IF v = "Basic" THEN BasicAddressSelectors ELSE EnhancedAddressSelectors
      [] f = "category" -> IF v = "Basic" THEN BasicCategorySelectors ELSE EnhancedCategorySelectors
      [] OTHER -> IF v = "Basic" THEN BasicWebsiteSelectors ELSE EnhancedWebsiteSelectors

MinLen(f) ==
    CASE f = "name" -> NameMinLen
      [] f = "address" -> AddressMinLen
      [] OTHER -> CategoryMinLen

\* 'Unknown Business', 'Address not found', 'Category not found' ('Unknown
\* Category' in Advanced); the website stays None
Placeholder(v, f) ==
    CASE f = "category" /\ v = "Advanced" ->
             Str(<<"U", "n", "k", "n", "o", "w", "n", " ", "C", "a", "t", "e", "g", "o", "r", "y">>)
      [] f = "name" -> Str(<<"U", "n", "k", "n", "o", "w", "n", " ", "B", "u", "s", "i", "n", "e", "s", "s">>)
      [] f = "address" -> Str(<<"A", "d", "d", "r", "e", "s", "s", " ", "n", "o", "t", " ", "f", "o", "u", "n", "d">>)
      [] f = "category" -> Str(<<"C", "a", "t", "e", "g", "o", "r", "y", " ", "n", "o", "t", " ", "f", "o", "u", "n", "d">>)
      [] OTHER -> None

\* data = {'name': '', 'address': '', 'category': '', 'website': None, ...}
EmptyFields == [f \in {"name", "address", "category", "website"} |->
                  IF f = "website" THEN None ELSE Str(<<>>)]

\* element.text of the element a selector finds
ElementTexts ==
    {<<>>, <<" ">>, <<"A">>, <<" ", "A", " ">>, <<"A", "b">>, <<" ", "A", "b">>, <<"B", "a", "r">>,
     <<"C", "a", "f", "e", "s">>, <<" ", "C", "a", "f", "e", "s", " ">>,
     <<"1", " ", "M", "a", "i", "n">>, <<" ", "1", " ", "M", "a", "i", "n", " ">>}

\* get_attribute('href') of the element a website selector finds
ElementUrls ==
    {<<>>, <<"a", ".", "i", "o">>, <<"g", "o", "o", "g", "l", "e", ".", "c", "o", "m", "/", "a">>,
     <<"b", ".", "i", "o", "/", "m", "a", "p", "s">>}
GoogleDomain == <<"g", "o", "o", "g", "l", "e", ".", "c", "o", "m">>
MapsWord == <<"m", "a", "p", "s">>

\* what one selector of a cascade can give: find_element (or the read that
\* follows) raises, or the text is read; an href can also be None
FieldOutcomes(f) ==
    {[throws |-> TRUE, value |-> None]}
    \cup (IF f = "website"
          THEN {[throws |-> FALSE, value |-> None]}
               \cup {[throws |-> FALSE, value |-> Str(u)] : u \in ElementUrls}
          ELSE {[throws |-> FALSE, value |-> Str(t)] : t \in ElementTexts})
NoTry == [throws |-> FALSE, value |-> None]

\* mutant: the length of the text as read, padding included
PassesCheckUntrimmed(f, raw) == Len(raw) > MinLen(f)

\* name_text = element.text.strip(); if name_text and len(name_text) > 1
PassesCheck(f, raw) == Strip(raw) # <<>> /\ Len(Strip(raw)) > MinLen(f)

\* if website_url and 'google.com' not in website_url and 'maps' not in website_url
AcceptsWebsite(url) ==
    url # <<>> /\ ~Contains(url, GoogleDomain) /\ ~Contains(url, MapsWord)

\* the test that ends a cascade, on what its selector gave; Advanced stores
\* whatever its lookup gave without a test (data['website'] =
\* website_element.get_attribute('href'))
Accepts(v, f, o) ==
    /\ ~o.throws
    /\ v # "Advanced" =>
          /\ ~o.value.none
          /\ IF f = "website" THEN AcceptsWebsite(o.value.text)
             ELSE PassesCheck(f, o.value.text)

\* the value stored: the trimmed text, the href as read
Resolved(f, o) == IF f = "website" THEN o.value ELSE Str(Strip(o.value.text))

\* why a selector did not end its cascade
SkipReason(f, o) ==
    IF o.throws THEN "threw"
    ELSE IF o.value.none \/ o.value.text = <<>> THEN "empty"
    ELSE IF f = "website" THEN "directory" ELSE "short"

\* the number of consecutive passes without a new link that ends the loop
Patience(v) ==
    CASE v = "Basic" -> BasicPatience
      [] v = "Enhanced" -> EnhancedPatience
      [] OTHER -> AdvancedPatience

\* ------------------------------------------------------------- the state
VARIABLES
    variant, max_results, visit_websites,    \* the controller and its arguments
    pc,                                      \* position in run_extraction
    all_links, scroll_attempts, no_new_content_count,   \* collector locals
    business_links,                          \* what the collector returned
    i, results, successful, failed,          \* the detail loop
    contacts_found,                          \* self.contacts_found
    data, page_contacts,                     \* extract_business_contacts locals
    handles, cur,                            \* driver.window_handles, current context
    ret, exit_path,                          \* how run_extraction ended
    quit_calls, ops_after_quit,              \* driver.quit() calls; driver use after one
    last_outcome, web_outcome,               \* how the last detail visit ended
                                             \* ("raised", "None", "unnamed", "data")
                                             \* and the last website visit
    text, parser_pc, contacts,               \* extract_contacts_from_text: its
                                             \* argument, position and result
    seen, passes, exit_reason,               \* history of the collection: links
    stagnant_run, escalations,               \* inserted, passes run, why the loop
    final_attempts, final_links,             \* ended, passes since the last
                                             \* insertion, strategies invoked in
                                             \* this streak, calls and result of
                                             \* _railway_final_attempt
    pass_pc,                                 \* one pass of get_business_links:
    pass_links, new_links_count, selector,   \* all_links, new_links_count, the
    links_before, reported, threw,           \* selectors evaluated; the set at
    inserted_after_throw, contributing,      \* the start, the place hrefs read,
    container, scrolled, resolved, applied,  \* selectors that threw or inserted;
    completed, document, page_down,          \* the containers tried, scrolled,
                                             \* those found, scrolled in part
                                             \* and in full, the document
                                             \* scroll and the PAGE_DOWN keys
    field, phase, strategy, last_try,        \* the field cascades of
    skipped, fields,                         \* extract_business_data: the field
                                             \* being resolved, where its
                                             \* cascade stands, selectors tried,
                                             \* what the last one gave, why the
                                             \* earlier ones were passed over,
                                             \* and the values of data
    response,                                \* what /scrape answered
    merge_pc, web_contacts,                  \* a website visit and the merge:
    site_contacts, contact_page_contacts     \* position, website_contacts (the
                                             \* dict extract_from_website
                                             \* builds and returns), what the
                                             \* site and its contact page gave

vars == <<variant, max_results, visit_websites, pc, all_links, scroll_attempts,
          no_new_content_count, business_links, i, results, successful, failed,
          contacts_found, data, page_contacts, handles, cur, ret, exit_path,
          quit_calls, ops_after_quit, last_outcome, web_outcome,
          text, parser_pc, contacts,
          seen, passes, exit_reason, stagnant_run, escalations, final_attempts,
          final_links,
          pass_pc, pass_links, new_links_count, selector, links_before, reported,
          threw, inserted_after_throw, contributing,
          container, scrolled, resolved, applied, completed, document, page_down,
          field, phase, strategy, last_try, skipped, fields,
          response, merge_pc, web_contacts, site_contacts, contact_page_contacts>>

program == <<variant, max_results, visit_websites, pc, all_links, scroll_attempts,
             no_new_content_count, business_links, i, results, successful, failed,
             contacts_found, data, page_contacts, handles, cur, ret, exit_path,
             quit_calls, ops_after_quit, last_outcome, web_outcome,
             seen, passes, exit_reason, stagnant_run, escalations, final_attempts,
             final_links, response>>
parser == <<text, parser_pc, contacts>>

config == <<variant, max_results, visit_websites>>
collector == <<all_links, scroll_attempts, no_new_content_count>>
counters == <<i, successful, failed>>
visit == <<data, page_contacts>>
tabs == <<handles, cur>>
ending == <<ret, exit_path, quit_calls>>
running == <<ret, exit_path, quit_calls, handles, cur>>
scanning == <<pass_links, new_links_count, selector, links_before, reported,
              threw, inserted_after_throw, contributing>>
scrolling == <<container, scrolled, resolved, applied, completed, document, page_down>>
one_pass == <<pass_pc, scanning, scrolling>>
cascade == <<field, phase, strategy, last_try, skipped, fields>>
merging == <<merge_pc, web_contacts, site_contacts, contact_page_contacts>>
history == <<seen, passes, exit_reason, stagnant_run, escalations, final_attempts,
             final_links>>

NoContacts == [emails |-> <<>>, phones |-> <<>>]

\* the state when the controller is constructed: no browser yet
AtEntry ==
    /\ pc = "setup"
    /\ all_links = <<>> /\ scroll_attempts = 0 /\ no_new_content_count = 0
    /\ business_links = <<>>
    /\ i = 0 /\ results = <<>> /\ successful = 0 /\ failed = 0 /\ contacts_found = 0
    /\ data = NoneData /\ page_contacts = NoContacts
    /\ handles = <<>> /\ cur = Closed
    /\ ret = Pending /\ exit_path = "running"
    /\ quit_calls = 0 /\ ops_after_quit = FALSE
    /\ last_outcome = "none" /\ web_outcome = "none"
    /\ seen = {} /\ passes = 0 /\ exit_reason = "none" /\ stagnant_run = 0
    /\ escalations = <<>> /\ final_attempts = 0 /\ final_links = {}
    /\ response = NoResponse

\* no pass is being looked at on its own
NoScan ==
    /\ pass_links = <<>> /\ new_links_count = 0 /\ selector = 0
    /\ links_before = <<>> /\ reported = {}
    /\ threw = FALSE /\ inserted_after_throw = FALSE /\ contributing = 0
NoScroll ==
    /\ container = 0 /\ scrolled = FALSE
    /\ resolved = {} /\ applied = {} /\ completed = {}
    /\ document = "none" /\ page_down = FALSE

\* no detail page is being resolved on its own
NoCascade ==
    /\ field = "none" /\ phase = "idle" /\ strategy = 0
    /\ last_try = NoTry /\ skipped = {} /\ fields = EmptyFields

\* no website visit is being looked at on its own
NoMerge ==
    /\ merge_pc = "idle" /\ web_contacts = NoContacts
    /\ site_contacts = NoContacts /\ contact_page_contacts = NoContacts

Init ==
    /\ variant \in Variants
    /\ max_results \in (IF variant = "Enhanced" THEN 1..MaxTarget ELSE Targets)
    /\ visit_websites \in BOOLEAN
    /\ AtEntry
    /\ text = <<>> /\ parser_pc = "idle" /\ contacts = NoContacts
    /\ pass_pc = "idle" /\ NoScan /\ NoScroll
    /\ NoCascade /\ NoMerge

\* the collector's frame is gone and its result consumed
ForgetHistory ==
    /\ seen' = {} /\ passes' = 0 /\ exit_reason' = "none" /\ stagnant_run' = 0
    /\ escalations' = <<>> /\ final_attempts' = 0 /\ final_links' = {}

\* a call on self.driver
UseDriver == ops_after_quit' = (ops_after_quit \/ quit_calls > 0)

\* a `return value` (or a propagating exception) inside the try statement:
\* the finally clause runs cleanup(), whose driver.quit() (inside its own
\* try/except) ends the browser and every window of it; the locals of the
\* frames that are left no longer exist (results is kept to compare with
\* what was returned)
Leave(path, value) ==
    /\ pc' = "done"
    /\ exit_path' = path
    /\ ret' = value
    /\ quit_calls' = IF RunsCleanup(path) THEN quit_calls + 1 ELSE quit_calls
    /\ handles' = IF RunsCleanup(path) THEN <<>> ELSE handles
    /\ cur' = IF RunsCleanup(path) THEN Closed ELSE cur
    /\ all_links' = <<>> /\ scroll_attempts' = 0 /\ no_new_content_count' = 0
    /\ business_links' = <<>>
    /\ i' = 0 /\ successful' = 0 /\ failed' = 0
    /\ data' = NoneData /\ page_contacts' = NoContacts

\* __init__ -> setup_browser: webdriver.Chrome starts the browser (Basic and
\* Advanced fall back to ChromeDriverManager when the system driver fails),
\* then execute_script hides the automation flag; the except clause prints
\* and re-raises, so __init__ raises and no controller object exists
SetupBrowser ==
    /\ pc = "setup"
    /\ \E system, manager, script \in BOOLEAN :
         LET started == system \/ (variant # "Enhanced" /\ manager)
         IN /\ handles' = IF started THEN <<MainTab>> ELSE handles
            /\ cur' = IF started THEN MainTab ELSE cur
            /\ IF started /\ script
               THEN pc' = "search" /\ UNCHANGED <<ret, exit_path>>
               ELSE /\ pc' = "unconstructed"
                    /\ ret' = Propagated /\ exit_path' = "setup_failed"
    /\ UNCHANGED <<config, parser, one_pass, cascade, merging, response, history, collector, business_links, counters, results,
                   contacts_found, visit, quit_calls, ops_after_quit,
                   last_outcome, web_outcome>>

\* search_google_maps; Enhanced retries through _fallback_search_strategy
SearchGoogleMaps ==
    /\ pc = "search"
    /\ UseDriver
    /\ \E primary, fallback \in BOOLEAN :
         LET ok == primary \/ (variant = "Enhanced" /\ fallback)
         IN IF ok
            THEN pc' = "collect"
                 /\ UNCHANGED <<running, collector, business_links, counters, visit>>
            ELSE Leave("search_failed", SearchFailedResult(variant))
    /\ UNCHANGED <<config, parser, one_pass, cascade, merging, response, history, results, contacts_found, last_outcome, web_outcome>>

\* the head of the collector: locals initialised; main.py first resolves the
\* scrollable panel and returns [] when no locator finds it or a lookup fails
BeginCollect ==
    /\ pc = "collect"
    /\ IF variant = "Basic" THEN UNCHANGED ops_after_quit ELSE UseDriver
    /\ all_links' = <<>> /\ scroll_attempts' = 0 /\ no_new_content_count' = 0
    /\ \E panel \in {"found", "missing", "error"} :
         IF variant = "Advanced" /\ panel # "found"
         THEN pc' = "links" /\ business_links' = <<>>
         ELSE pc' = "pass" /\ UNCHANGED business_links
    /\ UNCHANGED <<config, parser, one_pass, cascade, merging, response, history, counters, results, contacts_found, visit, tabs, ending,
                   last_outcome, web_outcome>>

\* mutant: the loop bounded by the target only
LoopConditionNoPassLimit == Len(all_links) < max_results

\* while scroll_attempts < max_scrolls and len(all_links) < self.max_results
LoopCondition ==
    /\ scroll_attempts < MaxScrolls(variant, max_results)
    /\ Len(all_links) < max_results

\* the while condition is false
LoopExit ==
    /\ pc = "pass"
    /\ ~LoopCondition
    /\ pc' = "slice"
    /\ exit_reason' = IF Len(all_links) >= max_results THEN "cap" ELSE "passes"
    /\ UNCHANGED <<config, parser, one_pass, cascade, merging, response, collector, business_links, counters, results, contacts_found,
                   visit, tabs, ending, ops_after_quit, last_outcome, web_outcome,
                   seen, passes, stagnant_run, escalations, final_attempts, final_links>>

\* one pass of GoogleMapsBusinessScraper.get_business_links
BasicPass ==
    /\ pc = "pass" /\ variant = "Basic" /\ LoopCondition
    /\ UseDriver
    /\ \E hrefs \in SeqsUpTo(ElementHrefs, MaxFound) : \E r \in {ScanHrefs(all_links, hrefs)} :
         LET stagnant == r.new = 0
             streak == StagnationCount(no_new_content_count, r.new)
         IN /\ all_links' = r.links
            /\ seen' = Range(r.links)
            /\ passes' = passes + 1
            /\ stagnant_run' = IF stagnant THEN stagnant_run + 1 ELSE 0
            /\ IF Len(r.links) >= max_results
               THEN /\ pc' = "slice" /\ exit_reason' = "cap"
                    /\ UNCHANGED <<scroll_attempts, no_new_content_count>>
               ELSE /\ no_new_content_count' = streak
                    /\ IF stagnant /\ streak >= BasicPatience
                       THEN /\ pc' = "slice" /\ exit_reason' = "stagnation"
                            /\ UNCHANGED scroll_attempts
                       ELSE /\ pc' = "pass" /\ scroll_attempts' = scroll_attempts + 1
                            /\ UNCHANGED exit_reason
    /\ UNCHANGED <<config, parser, one_pass, cascade, merging, response, business_links, counters, results, contacts_found, visit, tabs,
                   ending, last_outcome, web_outcome, escalations, final_attempts, final_links>>

\* one pass of EnhancedGoogleMapsBusinessScraper.get_business_links; at the end
\* of patience _railway_final_attempt returns a set that is merged in
EnhancedPass ==
    /\ pc = "pass" /\ variant = "Enhanced" /\ LoopCondition
    /\ UseDriver
    /\ \E hrefs \in SeqsUpTo(ElementHrefs, MaxFound) : \E r \in {ScanHrefs(all_links, hrefs)} :
         LET stagnant == r.new = 0
             streak == StagnationCount(no_new_content_count, r.new)
             reason == IF Len(r.links) >= max_results THEN "cap"
                       ELSE IF stagnant /\ streak >= EnhancedPatience THEN "stagnation"
                       ELSE "none"
             invoked == IF reason # "cap" /\ stagnant THEN Escalation(streak) ELSE "none"
         IN /\ passes' = passes + 1
            /\ stagnant_run' = IF stagnant THEN stagnant_run + 1 ELSE 0
            /\ escalations' = IF ~stagnant THEN <<>>
                               ELSE IF invoked # "none" THEN Append(escalations, invoked)
                               ELSE escalations
            /\ no_new_content_count' = IF reason = "cap" THEN no_new_content_count ELSE streak
            /\ IF RunsFinalAttempt(reason)
               THEN \E final \in SUBSET AbsLinks :
                      \E order \in ListOfSet(SeqOfSet(final)) :
                         /\ all_links' = SetUpdate(r.links, order)
                         /\ final_links' = final
                         /\ final_attempts' = final_attempts + 1
               ELSE /\ all_links' = r.links
                    /\ UNCHANGED <<final_links, final_attempts>>
            /\ seen' = Range(all_links')
            /\ IF reason = "none"
               THEN /\ pc' = "pass" /\ scroll_attempts' = scroll_attempts + 1
                    /\ UNCHANGED exit_reason
               ELSE /\ pc' = "slice" /\ exit_reason' = reason
                    /\ UNCHANGED scroll_attempts
    /\ UNCHANGED <<config, parser, one_pass, cascade, merging, response, business_links, counters, results, contacts_found, visit, tabs,
                   ending, last_outcome, web_outcome>>

\* one pass of AdvancedContactExtractor.get_business_links_advanced: reading
\* page_source or scrolling may raise, and the except clause returns []
AdvancedPass ==
    /\ pc = "pass" /\ variant = "Advanced" /\ LoopCondition
    /\ UseDriver
    /\ passes' = passes + 1
    /\ \E hrefs \in SeqsUpTo(SourceHrefs, MaxFound),
          raises \in {"none", "page_source", "scroll"}, end_seen \in BOOLEAN :
       \E r \in {ScanHrefs(all_links, hrefs)} :
         LET stagnant == r.new = 0
             streak == StagnationCount(no_new_content_count, r.new)
             run == IF stagnant THEN stagnant_run + 1 ELSE 0
         IN IF raises = "page_source"
            THEN /\ hrefs = <<>> /\ ~end_seen
                 /\ pc' = "links" /\ business_links' = <<>>
                 /\ exit_reason' = "error"
                 /\ all_links' = <<>> /\ scroll_attempts' = 0 /\ no_new_content_count' = 0
                 /\ UNCHANGED <<seen, stagnant_run>>
            ELSE IF stagnant /\ streak >= AdvancedPatience
            THEN /\ raises = "none" /\ ~end_seen
                 /\ all_links' = r.links /\ no_new_content_count' = streak
                 /\ seen' = Range(r.links) /\ stagnant_run' = run
                 /\ pc' = "slice" /\ exit_reason' = "stagnation"
                 /\ UNCHANGED <<scroll_attempts, business_links>>
            ELSE IF raises = "scroll"
            THEN /\ ~end_seen
                 /\ pc' = "links" /\ business_links' = <<>>
                 /\ exit_reason' = "error"
                 /\ seen' = Range(r.links) /\ stagnant_run' = run
                 /\ all_links' = <<>> /\ scroll_attempts' = 0 /\ no_new_content_count' = 0
            ELSE /\ all_links' = r.links /\ no_new_content_count' = streak
                 /\ seen' = Range(r.links) /\ stagnant_run' = run
                 /\ IF end_seen
                    THEN /\ pc' = "slice" /\ exit_reason' = "end_of_list"
                         /\ UNCHANGED <<scroll_attempts, business_links>>
                    ELSE /\ pc' = "pass"
                         /\ scroll_attempts' = scroll_attempts + 1
                         /\ UNCHANGED <<business_links, exit_reason>>
    /\ UNCHANGED <<config, parser, one_pass, cascade, merging, response, counters, results, contacts_found, visit, tabs, ending,
                   last_outcome, web_outcome, escalations, final_attempts, final_links>>

\* business_links = list(all_links)[:self.max_results]; return business_links
ReturnLinks ==
    /\ pc = "slice"
    /\ \E arrangement \in ListOfSet(all_links) :
         business_links' = Truncate(arrangement, max_results)
    /\ pc' = "links"
    /\ scroll_attempts' = 0 /\ no_new_content_count' = 0
    /\ UNCHANGED <<config, parser, one_pass, cascade, merging, response, history, all_links, counters, results, contacts_found, visit, tabs,
                   ending, ops_after_quit, last_outcome, web_outcome>>

\* `if not business_links:` after the collector has returned
CheckLinks ==
    /\ pc = "links"
    /\ IF variant = "Basic" /\ business_links = <<>>
       THEN UseDriver       \* the debug block reads driver.title, current_url
       ELSE UNCHANGED ops_after_quit
    /\ IF business_links = <<>>
       THEN Leave("no_links", ZeroLinksResult(variant))
       ELSE /\ pc' = "detail"
            /\ all_links' = <<>>
            /\ i' = 0 /\ successful' = 0 /\ failed' = 0
            /\ UNCHANGED <<scroll_attempts, no_new_content_count, business_links,
                           visit, running>>
    /\ ForgetHistory
    /\ UNCHANGED <<config, parser, one_pass, cascade, merging, response, results, contacts_found, last_outcome, web_outcome>>

\* what one call of extract_business_data can end in: an exception leaves it,
\* it returns None, or it returns a dict built from the texts of the name
\* locators that resolved (in list order) and the phone button
DetailScenarios ==
    {[outcome |-> o, texts |-> <<>>, mobile |-> NoValue] : o \in {"raised", "None"}}
    \cup {[outcome |-> "data", texts |-> t, mobile |-> m] :
        t \in SeqsUpTo(NameTexts, MaxNameHits), m \in {NoValue, "phone"}}

\* mutant: the per-item except clause does not count the visit as failed
ExtractBusinessDataUncountedError ==
    /\ pc = "detail" /\ variant \in {"Basic", "Enhanced"}
    /\ i < Len(business_links)
    /\ UseDriver
    /\ \E visit_result \in DetailScenarios :
         LET link == business_links[i + 1]
             outcome == visit_result.outcome
             business_data ==
                 IF outcome = "data"
                 THEN [NewData(link) EXCEPT !.name = FirstValidName(visit_result.texts),
                                            !.mobile = visit_result.mobile]
                 ELSE NoneData
         IN /\ last_outcome' = IF outcome = "data" /\ business_data.name = UnknownName
                               THEN "unnamed" ELSE outcome
            /\ IF outcome = "raised" /\ ~HasPerItemHandler(variant)
               THEN /\ Leave("exception", ExceptionResult(variant))
                    /\ UNCHANGED <<results, contacts_found>>
               ELSE /\ i' = i + 1
                    /\ pc' = "detail"
                    /\ UNCHANGED <<running, collector, business_links, visit>>
                    /\ IF outcome # "raised" /\ Meaningful(business_data)
                       THEN /\ results' = Append(results, business_data)
                            /\ successful' = successful + 1
                            /\ contacts_found' =
                                 IF business_data.email # NoValue \/ business_data.mobile # NoValue
                                 THEN contacts_found + 1 ELSE contacts_found
                            /\ UNCHANGED failed
                       ELSE /\ failed' = IF outcome = "raised" THEN failed ELSE failed + 1
                            /\ UNCHANGED <<results, successful, contacts_found>>
    /\ UNCHANGED <<config, parser, one_pass, cascade, merging, response, history, web_outcome>>

\* one iteration of the detail loop of Basic and Enhanced: extract_business_data
\* returns a dict or None (its except clause); the per-item handler takes
\* whatever still raises
ExtractBusinessData ==
    /\ pc = "detail" /\ variant \in {"Basic", "Enhanced"}
    /\ i < Len(business_links)
    /\ UseDriver
    /\ \E visit_result \in DetailScenarios :
         LET link == business_links[i + 1]
             outcome == visit_result.outcome
             business_data ==
                 IF outcome = "data"
                 THEN [NewData(link) EXCEPT !.name = FirstValidName(visit_result.texts),
                                            !.mobile = visit_result.mobile]
                 ELSE NoneData
         IN /\ last_outcome' = IF outcome = "data" /\ business_data.name = UnknownName
                               THEN "unnamed" ELSE outcome
            /\ IF outcome = "raised" /\ ~HasPerItemHandler(variant)
               THEN /\ Leave("exception", ExceptionResult(variant))
                    /\ UNCHANGED <<results, contacts_found>>
               ELSE /\ i' = i + 1
                    /\ pc' = "detail"
                    /\ UNCHANGED <<running, collector, business_links, visit>>
                    /\ IF outcome # "raised" /\ Meaningful(business_data)
                       THEN /\ results' = Append(results, business_data)
                            /\ successful' = successful + 1
                            /\ contacts_found' =
                                 IF business_data.email # NoValue \/ business_data.mobile # NoValue
                                 THEN contacts_found + 1 ELSE contacts_found
                            /\ UNCHANGED failed
                       ELSE /\ failed' = failed + 1
                            /\ UNCHANGED <<results, successful, contacts_found>>
    /\ UNCHANGED <<config, parser, one_pass, cascade, merging, response, history, web_outcome>>

\* mutant: the entry is put at the head of the list
InsertBusinessDataFirst(d) ==
    /\ LET contact_count == (IF d.email # NoValue THEN 1 ELSE 0)
                            + (IF d.secondary_email # NoValue THEN 1 ELSE 0)
       IN contacts_found' = IF d.none THEN contacts_found
                            ELSE contacts_found + contact_count
    /\ results' = <<d>> \o results
    /\ last_outcome' = IF d.none THEN "None"
                       ELSE IF d.name = UnknownName THEN "unnamed" ELSE "data"
    /\ i' = i + 1
    /\ pc' = "detail"
    /\ data' = NoneData /\ page_contacts' = NoContacts

\* the end of extract_business_contacts (contacts counted, dict or None
\* returned) and the rest of the loop body of main.py:
\* data_list_1.append(business_data)
AppendBusinessData(d) ==
    /\ LET contact_count == (IF d.email # NoValue THEN 1 ELSE 0)
                            + (IF d.secondary_email # NoValue THEN 1 ELSE 0)
       IN contacts_found' = IF d.none THEN contacts_found
                            ELSE contacts_found + contact_count
    /\ results' = Append(results, d)
    /\ last_outcome' = IF d.none THEN "None"
                       ELSE IF d.name = UnknownName THEN "unnamed" ELSE "data"
    /\ i' = i + 1
    /\ pc' = "detail"
    /\ data' = NoneData /\ page_contacts' = NoContacts

\* extract_business_contacts up to the decision to visit the website: the
\* directory page is opened and read; any failure outside the per-field
\* try blocks makes the function return None.  Without a visit the dict is
\* returned and appended.
OpenBusinessPage ==
    /\ pc = "detail" /\ variant = "Advanced"
    /\ i < Len(business_links)
    /\ UseDriver
    /\ \E page \in PageScenarios :
         LET link == business_links[i + 1]
             d == [NewData(link) EXCEPT
                     !.name = page.name, !.website = page.website,
                     !.email = PrimaryOf(page.emails),
                     !.secondary_email = SecondaryOf(page.emails)]
         IN /\ cur = Closed => page.fails
            /\ IF page.fails
               THEN AppendBusinessData(NoneData)
               ELSE IF ShouldVisit(visit_websites, page.website)
               THEN /\ data' = d
                    /\ page_contacts' = [emails |-> page.emails, phones |-> <<>>]
                    /\ pc' = "website"
                    /\ UNCHANGED <<i, results, contacts_found, last_outcome>>
               ELSE AppendBusinessData(d)
    /\ web_outcome' = "none"
    /\ UNCHANGED <<config, parser, one_pass, cascade, merging, response, history, collector, business_links, successful, failed, tabs, ending>>

\* the call of extract_from_website, the merge that follows it and the
\* return of the dict; an exception leaving extract_from_website reaches the
\* except clause of extract_business_contacts, which returns None
VisitWebsite ==
    /\ pc = "website"
    /\ UseDriver
    /\ \E web \in WebScenarios :
         LET o == ExtractFromWebsite(handles, cur, web.f, web.hf)
             website_contacts ==
                 IF o.res = "ok"
                 THEN [emails |-> web.site_emails \o web.contact_emails, phones |-> <<>>]
                 ELSE ErrorContacts
             merged == MergeInto(data, page_contacts, website_contacts)
         IN /\ handles' = o.handles /\ cur' = o.cur
            /\ web_outcome' = o.res
            /\ AppendBusinessData(IF o.res = "raised" THEN NoneData
                                  ELSE IF Truthy(website_contacts) THEN merged
                                  ELSE data)
    /\ UNCHANGED <<config, parser, one_pass, cascade, merging, response, history, collector, business_links, successful, failed, ending>>

\* mutant: when the list is exhausted the result list is scanned again
CollectMoreWhenExhausted ==
    /\ pc = "detail"
    /\ i = Len(business_links)
    /\ pc' = "pass"
    /\ UNCHANGED <<config, parser, one_pass, cascade, merging, response, history, results, contacts_found, ops_after_quit,
                   last_outcome, web_outcome, collector, business_links, counters, visit, running>>

\* the loop is exhausted: the summary is printed and the list returned
ReturnResults ==
    /\ pc = "detail"
    /\ i = Len(business_links)
    /\ Leave("completed", ListRet(results))
    /\ UNCHANGED <<config, parser, one_pass, cascade, merging, response, history, results, contacts_found, ops_after_quit,
                   last_outcome, web_outcome>>

\* the statements of run_extraction that no inner handler covers
TryBody == {"search", "collect", "links", "detail"}

\* an exception raised by a statement of run_extraction itself (a print that
\* fails, an interrupt): an Exception is taken by the outer except clause,
\* any other BaseException propagates to the caller
RaiseInTry ==
    /\ pc \in TryBody
    /\ \E kind \in {"Exception", "BaseException"} :
         IF kind = "Exception"
         THEN Leave("exception", ExceptionResult(variant))
         ELSE Leave("interrupt", Propagated)
    /\ ForgetHistory
    /\ UNCHANGED <<config, parser, one_pass, cascade, merging, response, results, contacts_found, ops_after_quit,
                   last_outcome, web_outcome>>

\* the end of the handler of /scrape, which runs AdvancedContactExtractor:
\* the constructor raised and the except clause answers HTTP 500, or
\* run_extraction returned and its value is turned into a SearchResponse.
\* (An exception that is no Exception leaves the handler and nothing is
\* answered.)
ScrapeRespond ==
    /\ variant = "Advanced" /\ response = NoResponse
    /\ \/ pc = "unconstructed" /\ response' = ServerError
       \/ pc = "done" /\ ret.kind # "raised" /\ response' = ScrapeResponse(ret)
    /\ UNCHANGED <<config, parser, one_pass, cascade, merging, history, pc, collector,
                   business_links, counters, results, contacts_found, visit, running,
                   ops_after_quit, last_outcome, web_outcome>>

Next ==
    \/ SetupBrowser
    \/ SearchGoogleMaps
    \/ BeginCollect
    \/ LoopExit
    \/ BasicPass
    \/ EnhancedPass
    \/ AdvancedPass
    \/ ReturnLinks
    \/ CheckLinks
    \/ ExtractBusinessData
    \/ OpenBusinessPage
    \/ VisitWebsite
    \/ ReturnResults
    \/ RaiseInTry
    \/ ScrapeRespond

Spec == Init /\ [][Next]_vars

\* ------------------------------------- extract_contacts_from_text on its own
\* the texts: arrangements of distinct fragments
Texts == {t \in SeqsUpTo(Fragments, MaxFragments) :
            \A a, b \in 1..Len(t) : a # b => t[a] # t[b]}

ParserInit ==
    /\ variant = "Advanced" /\ max_results = ScrollDivisor /\ visit_websites = FALSE
    /\ AtEntry
    /\ text \in Texts /\ parser_pc = "call" /\ contacts = NoContacts
    /\ pass_pc = "idle" /\ NoScan /\ NoScroll
    /\ NoCascade /\ NoMerge

\* one call: the scan fills the sets `emails` and `phones`, the two loops
\* build valid_emails and valid_phones (the order in which they iterate the
\* sets is erased by the set(...) that follows), and each list returned is
\* list(set(valid))[:3]
ExtractContactsFromText ==
    /\ parser_pc = "call"
    /\ LET valid_emails == ValidEmailList(ScanEmails(text))
           valid_phones == ValidPhoneList(ScanPhones(text))
       IN \E emails \in ListOfSet(SetUpdate(<<>>, valid_emails)),
             phones \in ListOfSet(SetUpdate(<<>>, valid_phones)) :
            contacts' = [emails |-> CapContacts(emails), phones |-> CapContacts(phones)]
    /\ parser_pc' = "returned"
    /\ UNCHANGED <<text, program, one_pass, cascade, merging>>

ParserNext == ExtractContactsFromText

ParserSpec == ParserInit /\ [][ParserNext]_vars

\* --------------------------------------- one pass of get_business_links
\* (Basic and Enhanced): the scan over link_selectors, then the scroll
LinkSelectors(v) == IF v = "Basic" THEN BasicLinkSelectors ELSE EnhancedLinkSelectors
Containers(v) == IF v = "Basic" THEN BasicContainers ELSE EnhancedContainers
ScrollSteps(v) == IF v = "Basic" THEN 1 ELSE EnhancedScrollSteps

\* an element whose get_attribute('href') raises
StaleElement == <<"stale", 0>>

\* what find_elements can do for one selector: raise, or return elements
SelectorOutcomes ==
    {[throws |-> TRUE, elements |-> <<>>]}
    \cup {[throws |-> FALSE, elements |-> e] :
            e \in SeqsUpTo(ElementHrefs \cup {StaleElement}, MaxFound)}

\* what one container locator can do: find_element raises, or the element is
\* found and the scroll script number fails_at raises (0: none does)
ContainerOutcomes(v) ==
    {[resolves |-> FALSE, fails_at |-> 0]}
    \cup {[resolves |-> TRUE, fails_at |-> f] : f \in 0..ScrollSteps(v)}

\* the sets a pass can start from
LinkSets == {l \in SeqsUpTo(AbsLinks, MaxPlaces) :
               \A a, b \in 1..Len(l) : a # b => l[a] # l[b]}

\* mutant: the scan ends with the first selector that returns elements
ScanEndsOnFirstHit(k, n, yielded) == k = n \/ yielded

\* `for selector in link_selectors:` runs to the end of the list
ScanEnds(k, n, yielded) == k = n

\* mutant: no `break` after a successful scroll
NeverStopsAfterScroll(done) == FALSE

\* scrolled = True; break
StopsAfterScroll(done) == done

PassInit ==
    /\ variant \in {"Basic", "Enhanced"} /\ max_results = ScrollDivisor
    /\ visit_websites = FALSE
    /\ AtEntry
    /\ text = <<>> /\ parser_pc = "idle" /\ contacts = NoContacts
    /\ pass_pc \in {"scan", "scroll"}
    /\ links_before \in (IF pass_pc = "scan" THEN LinkSets ELSE {<<>>})
    /\ pass_links = links_before
    /\ new_links_count = 0 /\ selector = 0 /\ reported = {}
    /\ threw = FALSE /\ inserted_after_throw = FALSE /\ contributing = 0
    /\ NoScroll
    /\ NoCascade /\ NoMerge

\* one turn of `for selector in link_selectors`: find_elements, then for
\* every element get_attribute('href'), the test and the insertion; either
\* call may raise, which skips the selector or the element
EvaluateSelector ==
    /\ pass_pc = "scan"
    /\ selector < LinkSelectors(variant)
    /\ \E found \in SelectorOutcomes :
       \E r \in {ScanHrefs(pass_links, found.elements)} :
         /\ pass_links' = r.links
         /\ new_links_count' = new_links_count + r.new
         /\ selector' = selector + 1
         /\ reported' = reported \cup {h \in Range(found.elements) : IsPlaceHref(h)}
         /\ threw' = (threw \/ found.throws)
         /\ inserted_after_throw' = (inserted_after_throw \/ (threw /\ r.new > 0))
         /\ contributing' = Min(2, contributing + (IF r.new > 0 THEN 1 ELSE 0))
         /\ pass_pc' = IF ScanEnds(selector + 1, LinkSelectors(variant),
                                   found.elements # <<>>)
                       THEN "scanned" ELSE "scan"
    /\ UNCHANGED <<program, parser, cascade, merging, links_before, scrolling>>

\* one turn of `for selector in scrollable_selectors`: find_element and the
\* scroll script(s) inside one try; `except: continue`.  After the loop of
\* the Enhanced collector the PAGE_DOWN keys are sent to the body.
TryContainer ==
    /\ pass_pc = "scroll"
    /\ container < Containers(variant)
    /\ \E panel \in ContainerOutcomes(variant) :
         LET k == container + 1
             done == panel.resolves /\ panel.fails_at = 0
             partly == panel.resolves /\ (done \/ panel.fails_at > 1)
             over == StopsAfterScroll(done) \/ k = Containers(variant)
         IN /\ container' = k
            /\ resolved' = IF panel.resolves THEN resolved \cup {k} ELSE resolved
            /\ applied' = IF partly THEN applied \cup {k} ELSE applied
            /\ completed' = IF done THEN completed \cup {k} ELSE completed
            /\ scrolled' = (scrolled \/ done)
            /\ pass_pc' = IF ~over THEN "scroll"
                          ELSE IF scrolled' THEN "end" ELSE "document"
            /\ page_down' = (over /\ scrolled' /\ variant = "Enhanced")
    /\ UNCHANGED <<program, parser, cascade, merging, scanning, document>>

\* `if not scrolled:` the whole-document scroll; when it raises the outer
\* except clause takes it (Enhanced: the PAGE_DOWN keys are then not sent)
DocumentScroll ==
    /\ pass_pc = "document"
    /\ \E raises \in BOOLEAN :
         /\ document' = IF raises THEN "raised" ELSE "done"
         /\ page_down' = (~raises /\ variant = "Enhanced")
    /\ pass_pc' = "end"
    /\ UNCHANGED <<program, parser, cascade, merging, scanning, container, scrolled, resolved, applied,
                   completed>>

PassNext ==
    \/ EvaluateSelector
    \/ TryContainer
    \/ DocumentScroll

PassSpec == PassInit /\ [][PassNext]_vars

\* ----------------------------- one website visit and the merge after it
\* (extract_business_contacts from the read of the directory page on, and
\* extract_from_website)
AddressBook == <<"a@x.com", "b@x.com", "c@x.com", "d@x.com", "e@x.com">>
Addresses == {AddressBook[k] : k \in 1..MaxAddresses}

\* the lists extract_contacts_from_text can give for one page: no value
\* twice, in any order
EmailLists ==
    {<<>>} \cup {<<a>> : a \in Addresses}
    \cup {x \in Addresses \X Addresses : x[1] # x[2]}
PhoneLists == {<<>>, <<"p1", "p2">>, <<"p2", "p3", "p4">>}
PageContacts == {[emails |-> e, phones |-> p] : e \in EmailLists, p \in PhoneLists}

\* what the steps below leave alone
around_visit == <<config, pc, collector, business_links, counters, results, contacts_found,
                  tabs, ending, ops_after_quit, last_outcome, history, response>>

MergeInit ==
    /\ variant = "Advanced" /\ max_results = ScrollDivisor /\ visit_websites = TRUE
    /\ AtEntry
    /\ text = <<>> /\ parser_pc = "idle" /\ contacts = NoContacts
    /\ pass_pc = "idle" /\ NoScan /\ NoScroll
    /\ NoCascade
    /\ merge_pc = "page" /\ web_contacts = NoContacts
    /\ site_contacts = NoContacts /\ contact_page_contacts = NoContacts

\* page_contacts = self.extract_contacts_from_text(self.driver.page_source)
\* and the two assignments that follow; the page has a website
ReadDirectoryPage ==
    /\ merge_pc = "page"
    /\ \E c \in PageContacts :
         /\ page_contacts' = c
         /\ data' = [NewData(<<"abs", 1>>) EXCEPT
                        !.name = "Acme", !.website = "w",
                        !.email = PrimaryOf(c.emails),
                        !.secondary_email = SecondaryOf(c.emails)]
    /\ merge_pc' = "site"
    /\ UNCHANGED <<around_visit, web_outcome, parser, one_pass, cascade,
                   web_contacts, site_contacts, contact_page_contacts>>

\* extract_from_website up to the search for a contact link: the window is
\* opened and the page read; a call that raises ends in the except clause,
\* which returns {'emails': [], 'phones': []}
ReadWebsite ==
    /\ merge_pc = "site"
    /\ \/ \E c \in PageContacts :
            /\ web_contacts' = c /\ site_contacts' = c
            /\ merge_pc' = "contact"
            /\ UNCHANGED web_outcome
       \/ /\ web_contacts' = ErrorContacts
          /\ web_outcome' = "error"
          /\ merge_pc' = "returned"
          /\ UNCHANGED site_contacts
    /\ UNCHANGED <<around_visit, visit, parser, one_pass, cascade, contact_page_contacts>>

\* the rest of extract_from_website: the first contact link, if there is
\* one, is clicked and the lists of its page extend those of the site (a
\* click that raises is passed over); then the window is closed and the
\* dict returned, or the except clause returns empty lists
FollowContactLink ==
    /\ merge_pc = "contact"
    /\ \E click \in {"no_link", "click_fails", "clicked"}, closes \in BOOLEAN :
         \E c \in (IF click = "clicked" /\ closes THEN PageContacts ELSE {NoContacts}) :
            IF closes
            THEN /\ contact_page_contacts' = c
                 /\ web_contacts' = [emails |-> web_contacts.emails \o c.emails,
                                     phones |-> web_contacts.phones \o c.phones]
                 /\ web_outcome' = "ok"
                 /\ UNCHANGED site_contacts
            ELSE /\ web_contacts' = ErrorContacts
                 /\ web_outcome' = "error"
                 /\ site_contacts' = NoContacts /\ contact_page_contacts' = NoContacts
    /\ merge_pc' = "returned"
    /\ UNCHANGED <<around_visit, visit, parser, one_pass, cascade>>

\* `if website_contacts:` and the merge under it
MergeWebsiteContacts ==
    /\ merge_pc = "returned"
    /\ data' = IF Truthy(web_contacts) THEN MergeInto(data, page_contacts, web_contacts)
               ELSE data
    /\ merge_pc' = "merged"
    /\ UNCHANGED <<around_visit, web_outcome, page_contacts, parser, one_pass, cascade,
                   web_contacts, site_contacts, contact_page_contacts>>

MergeNext ==
    \/ ReadDirectoryPage
    \/ ReadWebsite
    \/ FollowContactLink
    \/ MergeWebsiteContacts

MergeSpec == MergeInit /\ [][MergeNext]_vars

\* ------------------------------------- the cascades of one detail page
ResolverInit ==
    /\ variant \in {"Basic", "Enhanced", "Advanced"} /\ max_results = ScrollDivisor
    /\ visit_websites = FALSE
    /\ AtEntry
    /\ text = <<>> /\ parser_pc = "idle" /\ contacts = NoContacts
    /\ pass_pc = "idle" /\ NoScan /\ NoScroll
    /\ field = "name" /\ phase = "try" /\ strategy = 0
    /\ last_try = NoTry /\ skipped = {} /\ fields = EmptyFields
    /\ NoMerge

\* one turn of `for selector in <field>_selectors`: find_element and the read
\* inside try, `except: continue`; a value that passes the test is stored
\* and ends the loop; after the last selector the placeholder is stored
TryStrategy ==
    /\ phase = "try"
    /\ \E o \in FieldOutcomes(field) :
         /\ last_try' = o
         /\ strategy' = strategy + 1
         /\ IF Accepts(variant, field, o)
            THEN /\ fields' = [fields EXCEPT ![field] = Resolved(field, o)]
                 /\ phase' = "resolved"
                 /\ UNCHANGED skipped
            ELSE /\ skipped' = skipped \cup {SkipReason(field, o)}
                 /\ IF strategy + 1 = Strategies(variant, field)
                    THEN /\ fields' = [fields EXCEPT ![field] = Placeholder(variant, field)]
                         /\ phase' = "resolved"
                    ELSE /\ phase' = "try"
                         /\ UNCHANGED fields
    /\ UNCHANGED <<program, parser, one_pass, merging, field>>

\* the next cascade begins; after the website the dict is returned
NextField ==
    /\ phase = "resolved"
    /\ IF field = "website"
       THEN /\ phase' = "returned"
            /\ UNCHANGED <<field, strategy, last_try, skipped>>
       ELSE /\ field' = FieldOrder[1 + CHOOSE k \in 1..3 : FieldOrder[k] = field]
            /\ phase' = "try" /\ strategy' = 0
            /\ last_try' = NoTry /\ skipped' = {}
    /\ UNCHANGED <<program, parser, one_pass, merging, fields>>

ResolverNext ==
    \/ TryStrategy
    \/ NextField

ResolverSpec == ResolverInit /\ [][ResolverNext]_vars

\* ------------------------------------------------------------- properties
Returned == pc \in {"links", "detail", "website"}   \* the collector has returned
NoDuplicates(s) == \A a, b \in 1..Len(s) : a # b => s[a] # s[b]
IsPrefix(s, t) == Len(s) <= Len(t) /\ s = SubSeq(t, 1, Len(s))
Last(s) == s[Len(s)]

\* C1: in every controller run_extraction calls driver.quit() (through
\* cleanup) exactly once on every way out - search failure, no links, normal
\* completion, an exception or an interrupt mid-run - never before that, and
\* no driver call follows the release.
C1_ReleasedExactlyOnce ==
    /\ pc = "done" => quit_calls = 1 /\ handles = <<>>
    /\ pc # "done" => quit_calls = 0
    /\ ~ops_after_quit

\* a run left by an exception after a record was collected, browser released
C1_Witness ==
    /\ pc = "done" /\ exit_path \in {"exception", "interrupt"}
    /\ results # <<>> /\ quit_calls = 1

\* C2: the list the link collector returns has at most max_results elements,
\* whatever the passes found, also when one pass (or the final sweep of the
\* Enhanced collector) takes the set beyond max_results.
C2_AtMostTarget == Returned => Len(business_links) <= max_results

\* the set held more links than the target and the list returned holds the target
C2_Witness ==
    /\ pc = "links" /\ Len(all_links) > max_results
    /\ Len(business_links) = max_results

\* C3: the list the link collector returns never holds the same reference twice.
C3_NoDuplicateLinks == Returned => NoDuplicates(business_links)

\* every discovered reference returned, several of them
C3_Witness ==
    /\ pc = "links" /\ Len(business_links) > 1
    /\ Len(business_links) = Len(all_links)

\* C4: the returned list is in first-discovery order, a prefix of the
\* discovery order when more than max_results references were discovered.
\* (all_links holds the references in the order of their insertion.)
C4_DiscoveryOrder ==
    (pc = "links" /\ all_links # <<>>) => IsPrefix(business_links, all_links)

\* C5: when the collector returns no reference, run_extraction returns an
\* empty list and raises nothing, in every controller.
C5_ZeroLinksEmptyList ==
    (pc = "done" /\ exit_path = "no_links") => ret = ListRet(<<>>)

\* a step that ends one detail visit of the loop of Basic or Enhanced
DetailVisitStep ==
    /\ pc = "detail" /\ variant \in {"Basic", "Enhanced"}
    /\ pc' = "detail" /\ i' = i + 1

\* C6: in Basic and Enhanced a visit whose name cascade ends at the
\* placeholder 'Unknown Business' appends nothing, adds one to the failure
\* counter and leaves the success counter as it was.
C6_UnnamedDropped ==
    [][(DetailVisitStep /\ last_outcome' = "unnamed")
         => (results' = results /\ failed' = failed + 1 /\ successful' = successful)]_vars

\* a record was kept, then a visit ended at the placeholder name and was counted failed
C6_Witness ==
    /\ pc = "detail" /\ variant \in {"Basic", "Enhanced"}
    /\ last_outcome = "unnamed" /\ failed > 0 /\ results # <<>>

\* C7: a detail visit that raises or returns no record does not end the run:
\* the failure counter goes up by one, nothing is appended, the records
\* collected so far stay, and the loop goes on to the next reference.
C7_FailedVisitSkipped ==
    [][(pc \in {"detail", "website"} /\ i' = i + 1 /\ last_outcome' \in {"raised", "None"})
         => (pc' = "detail" /\ failed' = failed + 1 /\ results' = results)]_vars

\* C8: after a website visit that took the error path the record's
\* website_visited is false; it is true only after a visit that succeeded.
C8_VisitedOnlyOnSuccess ==
    (web_outcome # "none" /\ results # <<>>)
        => (Last(results).website_visited <=> web_outcome = "ok")

\* C9: when the website visit fails, the record's email and secondary_email
\* are the values assigned from the directory page before the visit.
C9_EmailsKeptOnFailure ==
    [][(pc = "website" /\ web_outcome' \in {"error", "raised"})
         => /\ Last(results').email = data.email
            /\ Last(results').secondary_email = data.secondary_email]_vars

\* C10: a website visit that fails, at whichever step, loses no record:
\* extract_business_contacts still returns the dict resolved from the
\* directory page.
C10_RecordSurvivesVisitFailure ==
    (web_outcome \in {"error", "raised"} /\ results # <<>>) => ~Last(results).none

\* C11: when extract_from_website has returned, by its normal path or from
\* its except clause, the current context is the original window
\* (window_handles[0]), that window is still open and the window opened for
\* the website is closed.
C11_BackOnOriginalContext ==
    [][(pc = "website" /\ web_outcome' \in {"ok", "error"})
         => /\ cur' = MainTab
            /\ handles' # <<>> /\ handles'[1] = MainTab
            /\ Range(handles') \subseteq Range(handles)]_vars

\* --------------------------------- properties of extract_contacts_from_text
ParserReturned == parser_pc = "returned"
UpperChars == {"A", "X", "C", "O"}

\* the ten national digits of a number given as 10 digits, or as 11 digits
\* with the country digit 1 in front; <<>> for any other digit string
TenDigits(d) ==
    IF Len(d) = 10 THEN d
    ELSE IF Len(d) = 11 /\ d[1] = "1" THEN Tail(d)
    ELSE <<>>

\* '(AAA) PPP-NNNN' for ten digits AAAPPPNNNN
UsForm(d) ==
    <<"(", d[1], d[2], d[3], ")", " ", d[4], d[5], d[6], "-", d[7], d[8], d[9], d[10]>>

\* C12: whatever the text, at most 3 emails and at most 3 phones are
\* returned, neither list holds a value twice, and every returned phone has
\* 10 to 15 digits once the other characters are removed.
C12_AtMostThreeUnique ==
    ParserReturned =>
        /\ Len(contacts.emails) <= 3 /\ Len(contacts.phones) <= 3
        /\ NoDuplicates(contacts.emails) /\ NoDuplicates(contacts.phones)
        /\ \A k \in 1..Len(contacts.phones) :
             Len(DigitsOnly(contacts.phones[k])) \in 10..15

\* four numbers passed validation and three were returned
C12_Witness ==
    /\ ParserReturned
    /\ Cardinality(Range(ValidPhoneList(ScanPhones(text)))) > 3
    /\ Len(contacts.phones) = 3

\* C13: a phone candidate that cleans to ten digits AAAPPPNNNN comes back as
\* '(AAA) PPP-NNNN', one that cleans to eleven digits with a leading 1 comes
\* back in that form without the 1 (unless three other phones fill the
\* list), and every phone returned is such a form of a candidate.
C13_UsPhoneFormat ==
    ParserReturned =>
        /\ \A c \in Range(ScanPhones(text)) :
             LET d == TenDigits(DigitsOnly(c))
             IN d # <<>> => \/ UsForm(d) \in Range(contacts.phones)
                            \/ Len(contacts.phones) = 3
        /\ \A k \in 1..Len(contacts.phones) :
             \E c \in Range(ScanPhones(text)) :
                /\ TenDigits(DigitsOnly(c)) # <<>>
                /\ contacts.phones[k] = UsForm(TenDigits(DigitsOnly(c)))

\* 'tel:15551234568' was parsed and '(555) 123-4568' returned
C13_Witness ==
    /\ ParserReturned
    /\ TelCountryPhone \in Range(text)
    /\ <<"(", "5", "5", "5", ")", " ", "1", "2", "3", "-", "4", "5", "6", "8">>
         \in Range(contacts.phones)

\* C14: a number of the text with 10 to 15 digits that is neither ten digits
\* nor eleven digits with a leading 1 is kept in the returned phone list as
\* its digit string (unless three other phones fill the list).
C14_OtherLengthsKept ==
    ParserReturned =>
        \A n \in 1..Len(text) :
            LET d == DigitsOnly(text[n].text)
            IN (text[n] \in PhoneFragments /\ Len(d) \in 10..15 /\ TenDigits(d) = <<>>)
                 => (d \in Range(contacts.phones) \/ Len(contacts.phones) = 3)

\* C15: every email returned is trimmed and lower-case, has '@' and '.',
\* more than 5 characters and none of the no-reply fragments; and a matched
\* address that passes these tests once trimmed and lower-cased is returned
\* (unless three other addresses fill the list).
C15_EmailsNormalisedAndFiltered ==
    ParserReturned =>
        /\ \A k \in 1..Len(contacts.emails) :
             LET e == contacts.emails[k]
             IN /\ Range(e) \cap UpperChars = {}
                /\ e[1] # " " /\ e[Len(e)] # " "
                /\ "@" \in Range(e) /\ "." \in Range(e) /\ Len(e) > 5
                /\ ~\E f \in NoReplyFragments : Contains(e, f)
        /\ \A m \in Range(ScanEmails(text)) :
             LET e == LowerCase(Strip(m))
             IN AcceptsEmail(e) => \/ e \in Range(contacts.emails)
                                   \/ Len(contacts.emails) = 3

\* 'A@x.co' and 'noreply@x.co' were matched and only 'a@x.co' returned
C15_Witness ==
    /\ ParserReturned
    /\ MixedCaseEmail \in Range(text) /\ NoReplyEmail \in Range(text)
    /\ contacts.emails = << <<"a", "@", "x", ".", "c", "o">> >>

\* C16: the returned lists are in first-seen order of the merged pattern
\* scan, and of more than 3 valid values the first 3 seen are returned.
C16_FirstSeenOrder ==
    ParserReturned =>
        /\ contacts.emails = Take(Dedup(ValidEmailList(ScanEmails(text))), 3)
        /\ contacts.phones = Take(Dedup(ValidPhoneList(ScanPhones(text))), 3)

\* C17: when search_google_maps fails, run_extraction fails with an error
\* (SearchUnavailable), which the caller can tell from a search that opened
\* and matched nothing.
C17_SearchFailureRaises ==
    (pc = "done" /\ exit_path = "search_failed")
        => (ret.kind = "raised" /\ ret # ZeroLinksResult(variant))

\* C18: once the browser is acquired, an exception inside run_extraction
\* never reaches the caller: nothing is raised and a list is returned.
C18_ExceptionsAbsorbed ==
    (pc = "done" /\ exit_path = "exception") => ret.kind = "list"

\* C19: a run cut short in the detail loop, by an exception that leaves the
\* loop or by a cancellation, returns the records collected until then.
C19_PartialResultsReturned ==
    (pc = "done" /\ exit_path \in {"exception", "interrupt"} /\ results # <<>>)
        => ret = ListRet(results)

\* C20: when setup_browser fails after the browser was started, the browser
\* is released before the error reaches the caller.
C20_NoBrowserLeftRunning ==
    pc = "unconstructed" => handles = <<>>

\* ------------------------------------------------ the collection loop
\* C21: the link collector raises nothing to its caller, and when it ends
\* with fewer than max_results references - also when a driver call failed
\* during some pass - the list it returns holds every reference inserted up
\* to that point.
C21_ReturnsWhatWasCollected ==
    (pc = "links" /\ Cardinality(seen) < max_results) => Range(business_links) = seen

\* what the history says when the loop is said to have ended for a reason
ExitReasonHolds ==
    /\ exit_reason = "cap" => Cardinality(seen) >= max_results
    /\ exit_reason = "passes" => passes = MaxScrolls(variant, max_results)
    /\ exit_reason = "stagnation" => stagnant_run >= Patience(variant)

\* C24: the collection loop runs at most its maximum number of passes (8 in
\* Basic, 200 in Enhanced, min(50, N // 10) in Advanced) and ends only
\* because the cap was reached, the passes were exhausted or the stagnation
\* limit was reached.
C24_BoundedPasses ==
    /\ passes <= MaxScrolls(variant, max_results)
    /\ exit_reason \in {"none", "cap", "passes", "stagnation"}
    /\ ExitReasonHolds

\* C24, amended: as above, and the Advanced collector has two more ways out
\* of its loop: the page source shows an end-of-list indicator, or a driver
\* call raises and the collector returns [].
C24_BoundedPassesOrEndOfList ==
    /\ passes <= MaxScrolls(variant, max_results)
    /\ exit_reason \in {"none", "cap", "passes", "stagnation"}
                       \cup (IF variant = "Advanced" THEN {"end_of_list", "error"} ELSE {})
    /\ ExitReasonHolds

\* the Basic loop ended by its eighth pass, the target not reached
C24_Witness ==
    /\ pc = "slice" /\ variant = "Basic"
    /\ exit_reason = "passes" /\ passes = BasicMaxScrolls
    /\ Len(all_links) < max_results

\* the strategies of the Enhanced collector, in the order of their thresholds
EscalationOrder == <<"alternative_scroll", "page_refresh", "zoom_out", "complete_reload">>

\* C25: in the Enhanced collector, within one streak of consecutive stagnant
\* passes, the alternative scroll is invoked when the streak reaches 2, the
\* page refresh when it reaches 4 and the complete reload when it reaches 12,
\* in that order; the loop ends for stagnation only when the streak reaches
\* 25, so never before the alternative scroll and a reload were attempted in
\* that streak.
C25_GraduatedEscalation ==
    variant = "Enhanced" =>
        /\ IsPrefix(escalations, EscalationOrder)
        /\ "alternative_scroll" \in Range(escalations) <=> stagnant_run >= 2
        /\ "page_refresh" \in Range(escalations) <=> stagnant_run >= 4
        /\ "complete_reload" \in Range(escalations) <=> stagnant_run >= 12
        /\ exit_reason = "stagnation" =>
             /\ stagnant_run = EnhancedPatience
             /\ {"alternative_scroll", "page_refresh", "complete_reload"}
                  \subseteq Range(escalations)

\* the loop ended for stagnation in a streak that began after a link was
\* found, every strategy having been invoked again in it
C25_Witness ==
    /\ variant = "Enhanced" /\ pc = "slice" /\ exit_reason = "stagnation"
    /\ passes > EnhancedPatience
    /\ escalations = EscalationOrder

\* C26: in the Enhanced collector _railway_final_attempt runs at most once
\* per collection and only when the loop ends because the stagnation streak
\* reached its maximum, never when the cap was reached or the passes were
\* exhausted; what it finds is in the collected set before the result is
\* returned, and the collector then returns its list in the normal way.
C26_FinalAttemptOnStagnationOnly ==
    /\ final_attempts <= 1
    /\ final_attempts = 1 <=> (variant = "Enhanced" /\ exit_reason = "stagnation")
    /\ final_attempts = 0 => final_links = {}
    /\ pc \in {"slice", "links"} => final_links \subseteq Range(all_links)
    /\ (pc = "links" /\ final_attempts = 1) =>
          /\ Range(business_links) \subseteq Range(all_links)
          /\ Len(business_links) = Min(max_results, Len(all_links))

\* the sweep found a link no pass had found, and the collector returned it
C26_Witness ==
    /\ pc = "links" /\ final_attempts = 1
    /\ Len(all_links) = 1 /\ Range(all_links) = final_links
    /\ business_links = all_links

\* C27: at the end of every pass no_new_content_count is the number of most
\* recent consecutive passes that inserted no new reference: a pass without
\* an insertion adds one to it, a pass with an insertion resets it to 0.
C27_CounterIsStreak ==
    pc \in {"pass", "slice"} => no_new_content_count = stagnant_run

\* C27, amended: as above at the end of every pass but the one that reaches
\* the target in Basic and Enhanced: that pass inserted a reference and
\* leaves the loop by `break` before the counter is touched, so the counter
\* keeps the length of the streak that preceded it.
C27_CounterIsStreakUnlessCapReached ==
    pc \in {"pass", "slice"} =>
        IF exit_reason = "cap" /\ variant # "Advanced"
        THEN stagnant_run = 0 /\ no_new_content_count < Patience(variant)
        ELSE no_new_content_count = stagnant_run

\* a second streak being counted from 0 after an insertion ended the first
C27_Witness ==
    /\ pc = "pass" /\ no_new_content_count = 2 /\ stagnant_run = 2
    /\ passes > 4 /\ seen # {}

\* ------------------------------------------------ the website visitor
\* the record d carries nothing of a website visit
Unvisited(d) == ~d.website_visited /\ d.additional_contacts = NoAdditional

\* C30: extract_from_website is called for a record only if visit_websites is
\* true and a website was resolved for it; with visit_websites false every
\* record, collected or returned, has website_visited false and empty
\* additional_contacts.
C30_VisitOnlyIfConfigured ==
    /\ pc = "website" => (visit_websites /\ data.website # NoValue)
    /\ web_outcome # "none" => visit_websites
    /\ ~visit_websites =>
          /\ \A k \in 1..Len(results) : Unvisited(results[k])
          /\ \A k \in 1..Len(ret.list) : Unvisited(ret.list[k])

\* visits switched off: a record with a resolved website was returned unvisited
C30_Witness ==
    /\ pc = "done" /\ ~visit_websites /\ variant = "Advanced"
    /\ \E k \in 1..Len(ret.list) :
          /\ ~ret.list[k].none /\ ret.list[k].website # NoValue
          /\ Unvisited(ret.list[k])

\* ------------------------------------------------ one pass on its own
\* C28: in a pass of get_business_links (Basic, Enhanced) every selector of
\* link_selectors is evaluated and the place references read from the
\* elements of all of them are in the set afterwards, with what the set held
\* before: a selector that returns elements does not end the scan, and one
\* that throws takes nothing away from the others.
C28_AllSelectorsUnioned ==
    /\ pass_pc = "scan" => selector < LinkSelectors(variant)
    /\ pass_pc = "scanned" =>
          /\ selector = LinkSelectors(variant)
          /\ Range(pass_links) = Range(links_before) \cup reported
          /\ IsPrefix(links_before, pass_links)
          /\ NoDuplicates(pass_links)
          /\ new_links_count = Cardinality(reported \ Range(links_before))

\* two selectors each inserted a reference, one of them after another threw
C28_Witness ==
    /\ pass_pc = "scanned" /\ contributing = 2 /\ inserted_after_throw
    /\ Cardinality(reported) > 1

\* the containers tried, as indices of scrollable_selectors
Tried == 1..container
FirstOf(S) == CHOOSE c \in S : \A d \in S : c <= d

RequiredLength == [name |-> 1, address |-> 5, category |-> 2]

\* what the selector tried last gave passes the length check of field f
LastTextPasses(f) ==
    /\ ~last_try.throws /\ ~last_try.value.none
    /\ Len(Strip(last_try.value.text)) > RequiredLength[f]

\* C22: in the cascades of google_maps_scraper.py and
\* enhanced_google_maps_scraper.py, name, address and category each take the trimmed text of the first
\* selector, in list order, whose text passes the length check (longer than
\* 1, 5 and 2 characters); when no selector passes, the placeholder; a
\* selector that throws only moves the cascade to the next selector and ends
\* neither this field nor any other.
C22_FirstPassingStrategy ==
    variant \in {"Basic", "Enhanced"} =>
    /\ (field \in TextFields /\ phase = "try") =>
          /\ strategy < Strategies(variant, field)
          /\ fields[field] = Str(<<>>)
          /\ strategy > 0 => ~LastTextPasses(field)
    /\ (field \in TextFields /\ phase = "resolved") =>
          IF LastTextPasses(field)
          THEN /\ fields[field] = Str(Strip(last_try.value.text))
               /\ Head(fields[field].text) # " " /\ Last(fields[field].text) # " "
          ELSE /\ strategy = Strategies(variant, field)
               /\ fields[field] = Placeholder(variant, field)
    /\ phase = "returned" => \A f \in TextFields : fields[f].text # <<>>
    /\ \A k \in 1..3 :
          (\E j \in (k + 1)..4 : FieldOrder[j] = field) => fields[FieldOrder[k]].text # <<>>

\* the name ended at its placeholder, and the address was still resolved,
\* from a padded text, after one selector threw and another gave a short text
C22_Witness ==
    /\ variant \in {"Basic", "Enhanced"}
    /\ field = "address" /\ phase = "resolved"
    /\ fields["name"] = Placeholder(variant, "name")
    /\ {"threw", "short"} \subseteq skipped
    /\ fields["address"] # Placeholder(variant, "address")
    /\ last_try.value.text # fields["address"].text

\* the url points into the directory: it contains 'google.com' or 'maps'
IntoDirectory(url) ==
    \/ \E k \in 1..(Len(url) - 9) :
          SubSeq(url, k, k + 9) = <<"g", "o", "o", "g", "l", "e", ".", "c", "o", "m">>
    \/ \E k \in 1..(Len(url) - 3) : SubSeq(url, k, k + 3) = <<"m", "a", "p", "s">>

\* C23: the website of a record that a detail page gave never points into
\* the directory: a candidate whose url contains 'google.com' or 'maps' is
\* rejected, and when no selector gives an external link the website is None.
C23_WebsiteIsExternal ==
    phase = "returned" =>
        fields["website"].none \/ ~IntoDirectory(fields["website"].text)

\* ------------------------------------------------ the merge of contacts
\* the positions of xs that hold a value for the first time
FirstSeenAt(xs) == {k \in 1..Len(xs) : \A j \in 1..(k - 1) : xs[j] # xs[k]}

\* the first three values of xs, each taken where it is first seen
FirstThree(xs) ==
    LET at == FirstSeenAt(xs)
        nth(n) == CHOOSE k \in at : Cardinality({j \in at : j < k}) = n - 1
    IN [n \in 1..(IF Cardinality(at) < 3 THEN Cardinality(at) ELSE 3) |-> xs[nth(n)]]

\* the values of xs from the third on
FromThird(xs) == IF Len(xs) >= 3 THEN <<xs[3]>> ELSE <<>>

\* C31: after a website visit that succeeded, the emails and the phones of
\* the record are the candidates of the directory page, then those of the
\* website, then those of its contact page, each value kept where it is
\* first seen and the list cut to three: the first is the email, the second
\* the secondary email, and additional_contacts holds the merged values from
\* the third on; an email found on the directory page stays the primary one.
C31_DirectoryThenWebsiteMerge ==
    (merge_pc = "merged" /\ web_outcome = "ok") =>
        LET emails == FirstThree(page_contacts.emails \o site_contacts.emails
                                   \o contact_page_contacts.emails)
            phones == FirstThree(page_contacts.phones \o site_contacts.phones
                                   \o contact_page_contacts.phones)
        IN /\ data.email = (IF Len(emails) >= 1 THEN emails[1] ELSE NoValue)
           /\ data.secondary_email = (IF Len(emails) >= 2 THEN emails[2] ELSE NoValue)
           /\ data.additional_contacts.extra_emails = FromThird(emails)
           /\ data.additional_contacts.extra_phones = FromThird(phones)
           /\ page_contacts.emails # <<>> => data.email = page_contacts.emails[1]
           /\ Len(page_contacts.emails) >= 2 => data.secondary_email = page_contacts.emails[2]

\* the three pages showed more than three addresses between them, one of
\* them on both the directory page and the website, and more than three
\* numbers; the record holds a third email and a third phone
C31_Witness ==
    /\ merge_pc = "merged" /\ web_outcome = "ok"
    /\ Cardinality(Range(page_contacts.emails) \cup Range(site_contacts.emails)
                     \cup Range(contact_page_contacts.emails)) > 3
    /\ Range(page_contacts.emails) \cap Range(site_contacts.emails) # {}
    /\ contact_page_contacts.emails # <<>>
    /\ Cardinality(Range(page_contacts.phones) \cup Range(site_contacts.phones)) > 3
    /\ data.additional_contacts.extra_emails # <<>>
    /\ data.additional_contacts.extra_phones # <<>>

\* ------------------------------------------------ the result list
\* the records of a list of entries (an entry of main.py can be None)
Records(rs) == SelectSeq(rs, LAMBDA d : ~d.none)

\* the references of the records of a list
Urls(rs) == [k \in 1..Len(Records(rs)) |-> Records(rs)[k].google_maps_url]

\* C32: within one run no two records of the result list have the same
\* google_maps_url, and a record is not modified once it has been appended:
\* every step leaves the list as it was or appends to it.
C32_UniqueAndAppendOnly ==
    [][/\ IsPrefix(results, results')
       /\ Len(results') <= Len(results) + 1
       /\ NoDuplicates(Urls(results'))]_vars

\* a completed run of Basic or Enhanced that returned two records
C32_Witness ==
    /\ pc = "done" /\ exit_path = "completed" /\ variant \in {"Basic", "Enhanced"}
    /\ Len(ret.list) >= 2 /\ ret.list = results

RECURSIVE IsSubsequence(_, _)
\* xs is ys with some of its elements left out
IsSubsequence(xs, ys) ==
    IF xs = <<>> THEN TRUE
    ELSE IF ys = <<>> THEN FALSE
    ELSE IF Head(xs) = Head(ys) THEN IsSubsequence(Tail(xs), Tail(ys))
    ELSE IsSubsequence(xs, Tail(ys))

\* C33: the records run_extraction returns are in the order of the list the
\* link collector returned: their google_maps_url values are that list with
\* the references that failed or were dropped left out.
C33_CollectorOrderKept ==
    [][(pc \in {"detail", "website"}) =>
         (/\ IsSubsequence(Urls(results'), business_links)
          /\ (pc' = "done" => IsSubsequence(Urls(ret'.list), business_links))
          /\ ((pc' = "done" /\ exit_path' = "completed") => ret'.list = results'))]_vars

\* a run that visited two references and kept a record of each
C33_Witness ==
    /\ pc = "detail" /\ i = Len(business_links)
    /\ Len(Urls(results)) = 2 /\ Urls(results) = business_links

\* ------------------------------------------------ the phases of a run
\* a detail visit is under way or the loop is between two visits
InDetailPhase == pc \in {"detail", "website"}

\* C34: the collection of links and the detail visits are distinct phases
\* of a run: no detail visit starts before the link collector has returned,
\* the result list is neither scanned nor scrolled once the first detail
\* visit has started, and the collected list is not modified during the
\* detail visits.
C34_DistinctPhases ==
    [][/\ (InDetailPhase' \/ i' > i) => (pc = "links" \/ InDetailPhase)
       /\ InDetailPhase =>
             (/\ pc' = "done" \/ InDetailPhase'
              /\ passes' = passes /\ seen' = seen
              /\ all_links' = all_links /\ scroll_attempts' = scroll_attempts
              /\ pc' # "done" => business_links' = business_links)]_vars

\* between two detail visits: one reference visited, another still to visit
C34_Witness ==
    /\ pc = "detail" /\ i >= 1 /\ i < Len(business_links)
    /\ results # <<>>

\* ------------------------------------------------ the /scrape endpoint
\* /scrape has answered
Responded == response # NoResponse

\* C35: every /scrape request has an extractor and a browser of its own,
\* and the browser of a request has been released before the response of
\* that request is produced, be it a success, an empty result or HTTP 500.
C35_ReleasedBeforeResponse ==
    Responded => (handles = <<>> /\ cur = Closed)

\* ------------------------------------------------ the counters
\* C36: in the detail loop of Basic and Enhanced, after every iteration the
\* success counter plus the failure counter is the number of references
\* processed, the result list is as long as the success counter, and
\* contacts_found does not exceed the success counter.
C36_CountersAddUp ==
    (pc = "detail" /\ variant \in {"Basic", "Enhanced"}) =>
        /\ successful + failed = i
        /\ Len(results) = successful
        /\ contacts_found <= successful

\* two references processed: one visit raised, the other gave a record
\* that has no contact
C36_Witness ==
    /\ pc = "detail" /\ variant \in {"Basic", "Enhanced"}
    /\ i = 2 /\ successful = 1 /\ failed = 1 /\ contacts_found = 0
    /\ last_outcome = "raised"

\* ------------------------------------------------ small targets
\* min(50, n // 10)
TenthUpToFifty(n) == IF n \div 10 > 50 THEN 50 ELSE n \div 10

EntryPerReference(rs, links) ==
    /\ Len(rs) = Len(links)
    /\ \A k \in 1..Len(rs) : rs[k].none \/ rs[k].google_maps_url = links[k]

\* C38: when the loop of AdvancedContactExtractor.run_extraction completes,
\* the list returned has one entry for every collected reference, in order:
\* None for a visit that failed, the record otherwise, a record named
\* 'Unknown Business' included; the controller drops nothing and keeps no
\* failure counter, and /scrape leaves out the None entries only.
C38_OneEntryPerReference ==
    [][variant = "Advanced" =>
         (/\ (pc' = "detail") =>
                EntryPerReference(results', Take(business_links', i'))
          /\ (pc = "detail" /\ pc' = "done" /\ exit_path' = "completed") =>
                (ret'.kind = "list" /\ EntryPerReference(ret'.list, business_links))
          /\ (i' = i + 1 /\ last_outcome' = "unnamed") =>
                (~Last(results').none /\ Last(results').name = "Unknown Business")
          /\ (i' = i + 1 /\ last_outcome' = "None") => Last(results').none
          /\ failed' = 0 /\ successful' = 0
          /\ (Responded' /\ response'.success) =>
                (/\ response'.data = Records(ret'.list)
                 /\ Len(response'.data) =
                      Len(ret'.list) - Cardinality({k \in 1..Len(ret'.list) : ret'.list[k].none})))]_vars

\* /scrape answered a completed run whose list holds a None entry and the
\* record of an unnamed business
C38_Witness ==
    /\ variant = "Advanced" /\ pc = "done" /\ exit_path = "completed"
    /\ Responded /\ response.success
    /\ \E a, b \in 1..Len(ret.list) :
          /\ ret.list[a].none
          /\ ~ret.list[b].none /\ ret.list[b].name = "Unknown Business"
    /\ Len(response.data) = Len(ret.list) - 1

\* the number of entries of rs that are records
RecordCount(rs) == Cardinality({k \in 1..Len(rs) : ~rs[k].none})

\* C39: /scrape answers success = true exactly when the extractor returned
\* a list that is not empty, and then total_results is the number of entries
\* of data, which is the number of records (entries that are not None)
\* returned; when the extractor returned False or an empty list it answers
\* success = false with data = [] and total_results = 0; HTTP 500 is
\* answered only for an exception, the failure of the constructor included.
C39_ResponseMatchesResult ==
    Responded =>
        /\ response.status \in {200, 500}
        /\ response.status = 500 <=> (pc = "unconstructed" /\ ret.kind = "raised")
        /\ response.status = 200 =>
              /\ pc = "done" /\ ret.kind \in {"list", "False"}
              /\ response.success <=> (ret.kind = "list" /\ Len(ret.list) > 0)
        /\ response.success =>
              /\ response.total_results = Len(response.data)
              /\ response.total_results = RecordCount(ret.list)
              /\ \A k \in 1..Len(response.data) : ~response.data[k].none
        /\ ~response.success => (response.data = <<>> /\ response.total_results = 0)

\* the extractor returned a list whose entries are all None: success is
\* true and total_results is 0
C39_Witness ==
    /\ Responded /\ response.success
    /\ Len(ret.list) > 0 /\ response.total_results = 0
    /\ response.data = <<>>

====
